---- MODULE Spec2Model ----
(***************************************************************************)
(* A model of the argument interpretation core of pyflyby's `py' program   *)
(* (lib/python/pyflyby/_py.py): the mode resolvers, the value-or-string    *)
(* parser, the signature-driven argument binder and the result printer.    *)
(*                                                                         *)
(* Python strings are modelled as sequences of one-character strings, so   *)
(* that startswith, partition, replace, strip, lower, repr and the lexer   *)
(* of the expression fragment are computed character by character.         *)
(***************************************************************************)
EXTENDS Integers, Sequences, FiniteSets, TLC

VARIABLES
    pc,               \* position of the running call
    argspec,          \* the callable's ArgSpec: args, defaults, varargs, keywords
    commandline_args, \* the token list handed to the binder
    arg_mode,         \* canonical arg mode of the call
    ns_globals,       \* _Namespace.globals: the names defined so far
    stdin_data,       \* the content of sys.stdin
    stdin_pos,        \* the read offset of sys.stdin
    stdin_reads,      \* how many times sys.stdin.read() has been called
    args,             \* binder local: the tokens not yet consumed
    got_pos_args,     \* binder local: unparsed positional arguments
    got_pos_src,      \* for each entry of got_pos_args, where it came from
    got_keyword_args, \* binder local: option name -> unparsed value
    idx,              \* binder local: index of the next thing to reconcile
    parsed_args,      \* binder local: parsed positional values
    parsed_kwargs,    \* binder local: parsed keyword values
    outcome,          \* how the call ended: a return or the exception raised
    pvs_arg,          \* the argument of a direct _parse_value_or_string call
    mode_arg,         \* the raw string given to a mode resolver
    mode_alt,         \* a respelling of mode_arg
    mode_res,         \* the resolver results for mode_arg and mode_alt
    result,           \* print_result's value
    output_mode,      \* print_result's raw output mode
    stdout,           \* what has been printed
    main_pc,          \* position of _PyMain._run_action and of the action it runs
    main_args,        \* _PyMain.args: the tokens left after the global options
    self_arg_mode,    \* _PyMain.arg_mode: None or a canonical arg mode
    self_output_mode, \* _PyMain.output_mode: None or a raw output mode
    action,           \* the action _run_action chose, its command and its arguments
    sys_argv,         \* sys.argv: a plain list, or the LoggedList of SysArgvCtx
    orig_argv,        \* SysArgvCtx local: the argument vector to restore
    files,            \* the names of the files that exist
    isatty,           \* os.isatty(0)
    calls,            \* the invocations of the target function, in order
    applications,     \* the calls of _PyMain.apply, in order
    ending,           \* how the program ended: still running, SystemExit, exception
    log               \* help and usage texts printed, errors logged, in order

vars == <<pc, argspec, commandline_args, arg_mode, ns_globals, stdin_data,
          stdin_pos, stdin_reads, args, got_pos_args, got_pos_src,
          got_keyword_args, idx, parsed_args, parsed_kwargs, outcome,
          pvs_arg, mode_arg, mode_alt, mode_res, result, output_mode, stdout,
          main_pc, main_args, self_arg_mode, self_output_mode, action, sys_argv,
          orig_argv, files, isatty, calls, applications, ending, log>>

----------------------------------------------------------------------------
(* Characters and the str methods the code uses.                           *)

DigitChars == <<"0", "1", "2", "3", "4", "5", "6", "7", "8", "9">>
LowerChars == <<"a", "b", "c", "d", "e", "f", "g", "h", "i", "j", "k", "l", "m",
                "n", "o", "p", "q", "r", "s", "t", "u", "v", "w", "x", "y", "z">>
UpperChars == <<"A", "B", "C", "D", "E", "F", "G", "H", "I", "J", "K", "L", "M",
                "N", "O", "P", "Q", "R", "S", "T", "U", "V", "W", "X", "Y", "Z">>
SpaceChars == {" ", "\t", "\n"}

Range(seq) == {seq[i] : i \in 1..Len(seq)}
IndexOf(seq, c) == CHOOSE i \in 1..Len(seq) : seq[i] = c

IsDigit(c) == c \in Range(DigitChars)
IsLower(c) == c \in Range(LowerChars)
IsUpper(c) == c \in Range(UpperChars)
IsIdentStart(c) == IsLower(c) \/ IsUpper(c) \/ c = "_"
IsIdentChar(c) == IsIdentStart(c) \/ IsDigit(c)

\* str.startswith
startswith(s, p) == Len(s) >= Len(p) /\ SubSeq(s, 1, Len(p)) = p

\* str.lower left out
lower_forgotten(s) == s

\* str.lower
lower(s) ==
    [i \in 1..Len(s) |->
        IF IsUpper(s[i]) THEN LowerChars[IndexOf(UpperChars, s[i])] ELSE s[i]]

\* str.strip
strip(s) ==
    LET keep == {i \in 1..Len(s) : s[i] \notin SpaceChars}
    IN  IF keep = {} THEN <<>>
        ELSE SubSeq(s, CHOOSE i \in keep : \A j \in keep : i <= j,
                       CHOOSE i \in keep : \A j \in keep : i >= j)

\* str.replace(c, r) for a one-character c and any string r
RECURSIVE replace(_, _, _)
replace(s, c, r) ==
    IF s = <<>> THEN <<>>
    ELSE (IF Head(s) = c THEN r ELSE <<Head(s)>>) \o replace(Tail(s), c, r)

\* str.partition(sep) for a one-character sep: <<head, sep or "", tail>>
partition(s, sep) ==
    LET hits == {i \in 1..Len(s) : s[i] = sep}
    IN  IF hits = {} THEN <<s, <<>>, <<>>>>
        ELSE LET i == CHOOSE h \in hits : \A j \in hits : h <= j
             IN  <<SubSeq(s, 1, i - 1), <<sep>>, SubSeq(s, i + 1, Len(s))>>

\* " ".join / ", ".join
RECURSIVE join(_, _)
join(sep, parts) ==
    IF parts = <<>> THEN <<>>
    ELSE IF Len(parts) = 1 THEN parts[1]
    ELSE parts[1] \o sep \o join(sep, Tail(parts))

\* repr() of a str: single quotes unless the string holds a single quote and
\* no double quote; backslash, the quote and newline/tab are escaped.
ReprEscape(c, q) ==
    IF c = "\\" THEN <<"\\", "\\">>
    ELSE IF c = q THEN <<"\\", q>>
    ELSE IF c = "\n" THEN <<"\\", "n">>
    ELSE IF c = "\t" THEN <<"\\", "t">>
    ELSE <<c>>

RECURSIVE ReprBody(_, _)
ReprBody(s, q) ==
    IF s = <<>> THEN <<>> ELSE ReprEscape(Head(s), q) \o ReprBody(Tail(s), q)

\* no quoting at all
repr_identity(s) == s

repr(s) ==
    LET q == IF "'" \in Range(s) /\ "\"" \notin Range(s) THEN "\"" ELSE "'"
    IN  <<q>> \o ReprBody(s, q) \o <<q>>

\* pyflyby._util.prefixes: every non-empty prefix, the whole name included
prefixes(name) == {SubSeq(name, 1, k) : k \in 1..Len(name)}

\* pyflyby._idents.is_identifier
is_identifier(s) ==
    /\ s # <<>>
    /\ IsIdentStart(s[1])
    /\ \A i \in 2..Len(s) : IsIdentChar(s[i])

----------------------------------------------------------------------------
(* Values, and the fragment of Python expressions the tokens are written   *)
(* in: integer literals, quoted string literals, names, and the binary     *)
(* operators + - / (with / binding tighter, true division).                *)

IntV(n)        == [t |-> "int", n |-> n]
FloatV(nu, de) == [t |-> "float", num |-> nu, den |-> de]
StrV(s)        == [t |-> "str", s |-> s]
ModuleV(name)  == [t |-> "module", name |-> name]
NoneV          == [t |-> "none"]
ErrV(exc)      == [t |-> "error", exc |-> exc]

FuncV(name)    == [t |-> "func", name |-> name]

Str_fn == <<"f", "n">>
Str_kw == <<"k", "w">>

\* the importable names that are functions, and the importable modules
KnownFunctions == {Str_fn, Str_kw}
KnownModules == {<<"o", "s">>}

\* The names the import database can import (the external auto-importer).
KnownImports == KnownModules \cup KnownFunctions

OpChars == {"+", "-", "/"}
BadLexeme == [k |-> "bad"]

MinOf(S) == CHOOSE x \in S : \A y \in S : x <= y

DigitsEnd(s, i) ==
    LET stops == {j \in i..Len(s) : ~IsDigit(s[j])}
    IN  IF stops = {} THEN Len(s) + 1 ELSE MinOf(stops)

IdentEnd(s, i) ==
    LET stops == {j \in i..Len(s) : ~IsIdentChar(s[j])}
    IN  IF stops = {} THEN Len(s) + 1 ELSE MinOf(stops)

\* index of the closing quote of a string literal whose body starts at j; 0 if none
RECURSIVE StringEnd(_, _, _)
StringEnd(s, j, q) ==
    IF j > Len(s) THEN 0
    ELSE IF s[j] = "\\" THEN StringEnd(s, j + 2, q)
    ELSE IF s[j] = q THEN j
    ELSE StringEnd(s, j + 1, q)

RECURSIVE Unescape(_)
Unescape(b) ==
    IF b = <<>> THEN <<>>
    ELSE IF Head(b) = "\\" /\ Len(b) >= 2
         THEN (IF b[2] = "n" THEN <<"\n">>
               ELSE IF b[2] = "t" THEN <<"\t">>
               ELSE <<b[2]>>) \o Unescape(SubSeq(b, 3, Len(b)))
    ELSE <<Head(b)>> \o Unescape(Tail(b))

RECURSIVE DecimalValue(_, _)
DecimalValue(ds, acc) ==
    IF ds = <<>> THEN acc
    ELSE DecimalValue(Tail(ds), 10 * acc + (IndexOf(DigitChars, Head(ds)) - 1))

RECURSIVE LexFrom(_, _)
LexFrom(s, i) ==
    IF i > Len(s) THEN <<>>
    ELSE IF s[i] = " " THEN LexFrom(s, i + 1)
    ELSE IF IsDigit(s[i]) THEN
        LET j == DigitsEnd(s, i)
        IN  IF j <= Len(s) /\ IsIdentStart(s[j]) THEN <<BadLexeme>>
            ELSE <<[k |-> "int", n |-> DecimalValue(SubSeq(s, i, j - 1), 0)]>>
                 \o LexFrom(s, j)
    ELSE IF IsIdentStart(s[i]) THEN
        LET j == IdentEnd(s, i)
        IN  <<[k |-> "name", s |-> SubSeq(s, i, j - 1)]>> \o LexFrom(s, j)
    ELSE IF s[i] \in {"'", "\""} THEN
        LET e == StringEnd(s, i + 1, s[i])
        IN  IF e = 0 THEN <<BadLexeme>>
            ELSE <<[k |-> "str", s |-> Unescape(SubSeq(s, i + 1, e - 1))]>>
                 \o LexFrom(s, e + 1)
    ELSE IF s[i] \in OpChars THEN <<[k |-> "op", c |-> s[i]]>> \o LexFrom(s, i + 1)
    ELSE <<BadLexeme>>

\* PythonBlock(arg): the lexemes of the text
PythonBlock(arg) == LexFrom(arg, 1)

\* PythonBlock.parsable_as_expression: operand (op operand)*
parsable_as_expression(block) ==
    /\ Len(block) % 2 = 1
    /\ \A i \in 1..Len(block) :
          IF i % 2 = 1 THEN block[i].k \in {"int", "name", "str"}
          ELSE block[i].k = "op"

\* find_missing_imports: the free names of the block that are not defined
FreeNames(block) == {block[i].s : i \in {j \in 1..Len(block) : block[j].k = "name"}}
find_missing_imports(block, globals) == FreeNames(block) \ globals

\* pyflyby._autoimp.auto_import: import every free name the database knows;
\* the new globals, and whether every free name is now defined
auto_import_globals(block, globals) ==
    globals \cup (FreeNames(block) \cap KnownImports)
auto_import(block, globals) ==
    FreeNames(block) \subseteq auto_import_globals(block, globals)

RECURSIVE GCD(_, _)
GCD(a, b) == IF b = 0 THEN a ELSE GCD(b, a % b)
Abs(x) == IF x < 0 THEN -x ELSE x

IsNum(v) == v.t \in {"int", "float"}
NumOf(v) == IF v.t = "int" THEN v.n ELSE v.num
DenOf(v) == IF v.t = "int" THEN 1 ELSE v.den

MkNum(isfloat, nu, de) ==
    LET g  == GCD(Abs(nu), Abs(de))
        sn == IF de < 0 THEN -1 ELSE 1
    IN  IF isfloat THEN FloatV((sn * nu) \div g, (sn * de) \div g)
        ELSE IntV(nu \div de)

\* a op b, as Python evaluates it (with "from __future__ import division")
Arith(op, a, b) ==
    IF a.t = "error" THEN a
    ELSE IF b.t = "error" THEN b
    ELSE IF IsNum(a) /\ IsNum(b) THEN
        LET fl == a.t = "float" \/ b.t = "float"
        IN  IF op = "+" THEN MkNum(fl, NumOf(a) * DenOf(b) + NumOf(b) * DenOf(a),
                                   DenOf(a) * DenOf(b))
            ELSE IF op = "-" THEN MkNum(fl, NumOf(a) * DenOf(b) - NumOf(b) * DenOf(a),
                                        DenOf(a) * DenOf(b))
            ELSE IF NumOf(b) = 0 THEN ErrV("ZeroDivisionError")
            ELSE MkNum(TRUE, NumOf(a) * DenOf(b), DenOf(a) * NumOf(b))
    ELSE IF a.t = "str" /\ b.t = "str" /\ op = "+" THEN StrV(a.s \o b.s)
    ELSE ErrV("TypeError")

OperandValue(lexeme) ==
    IF lexeme.k = "int" THEN IntV(lexeme.n)
    ELSE IF lexeme.k = "str" THEN StrV(lexeme.s)
    ELSE IF lexeme.s \in KnownFunctions THEN FuncV(lexeme.s)
    ELSE ModuleV(lexeme.s)

\* Evaluate block[i..] given the sum so far (acc, or NoneV at the start), the
\* pending additive operator and the product term being built.
RECURSIVE EvalFrom(_, _, _, _, _)
EvalFrom(block, i, acc, sign, term) ==
    LET total == IF acc = NoneV THEN term ELSE Arith(sign, acc, term)
    IN  IF i > Len(block) THEN total
        ELSE IF block[i].c = "/"
             THEN EvalFrom(block, i + 2, acc, sign,
                           Arith("/", term, OperandValue(block[i + 1])))
        ELSE EvalFrom(block, i + 2, total, block[i].c, OperandValue(block[i + 1]))

\* pyflyby._autoimp.auto_eval of a parsable block whose names are all defined
eval_block(block) == EvalFrom(block, 2, NoneV, "+", OperandValue(block[1]))

Return(v, g) == [kind |-> "return", value |-> v, globals |-> g]
Raise(exc, g) == [kind |-> "raise", exc |-> exc, globals |-> g]

\* auto_eval that does not look at what auto_import reports
auto_eval_unchecked(block, globals) ==
    LET g == auto_import_globals(block, globals)
        v == eval_block(block)
    IN  IF v.t = "error" THEN Raise(v.exc, g) ELSE Return(v, g)

\* _Namespace.auto_eval
auto_eval(block, globals) ==
    LET g == auto_import_globals(block, globals)
    IN  IF ~auto_import(block, globals) THEN Raise("UnimportableNameError", g)
        ELSE LET v == eval_block(block)
             IN  IF v.t = "error" THEN Raise(v.exc, g) ELSE Return(v, g)

\* auto mode falling back to the string on every exception
parse_value_or_string_catch_all(arg, globals, mode) ==
    IF mode = "string" THEN Return(StrV(arg), globals)
    ELSE IF mode = "eval" THEN
        IF parsable_as_expression(PythonBlock(arg))
        THEN auto_eval(PythonBlock(arg), globals)
        ELSE Raise("SyntaxError", globals)
    ELSE IF mode = "auto" THEN
        IF parsable_as_expression(PythonBlock(arg)) THEN
            LET r == auto_eval(PythonBlock(arg), globals)
            IN  IF r.kind = "raise" THEN Return(StrV(arg), r.globals) ELSE r
        ELSE Return(StrV(arg), globals)
    ELSE Raise("ValueError", globals)

\* _parse_value_or_string
parse_value_or_string(arg, globals, mode) ==
    IF mode = "string" THEN Return(StrV(arg), globals)
    ELSE IF mode = "eval" THEN
        IF parsable_as_expression(PythonBlock(arg))
        THEN auto_eval(PythonBlock(arg), globals)
        ELSE Raise("SyntaxError", globals)
    ELSE IF mode = "auto" THEN
        IF parsable_as_expression(PythonBlock(arg)) THEN
            LET r == auto_eval(PythonBlock(arg), globals)
            IN  IF r.kind = "raise" /\ r.exc = "UnimportableNameError"
                THEN Return(StrV(arg), r.globals)
                ELSE r
        ELSE Return(StrV(arg), globals)
    ELSE Raise("ValueError", globals)

----------------------------------------------------------------------------
(* Exceptions and results of a call.                                       *)

Returned(v) == [kind |-> "return", value |-> v]
Raised(exc) == [kind |-> "raise", exc |-> exc]
ParseError(msg, info) == [kind |-> "raise", exc |-> "ParseError", msg |-> msg, info |-> info]
NoOutcome == [kind |-> "none"]

\* "%d" % n for n >= 0
RECURSIVE FormatInt(_)
FormatInt(n) ==
    IF n < 10 THEN <<DigitChars[n + 1]>>
    ELSE FormatInt(n \div 10) \o <<DigitChars[(n % 10) + 1]>>

\* The order of str comparison on option names (ASCII order of identifier characters).
CharCode(c) == IndexOf(DigitChars \o UpperChars \o <<"_">> \o LowerChars, c)

RECURSIVE StrLess(_, _)
StrLess(a, b) ==
    IF b = <<>> THEN FALSE
    ELSE IF a = <<>> THEN TRUE
    ELSE IF Head(a) = Head(b) THEN StrLess(Tail(a), Tail(b))
    ELSE CharCode(Head(a)) < CharCode(Head(b))

\* sorted(keys)
RECURSIVE SortedKeys(_)
SortedKeys(S) ==
    IF S = {} THEN <<>>
    ELSE LET m == CHOOSE x \in S : \A y \in S : x = y \/ StrLess(x, y)
         IN  <<m>> \o SortedKeys(S \ {m})

\* d[k] = v on a dict modelled as a function
DictSet(d, k, v) == [n \in DOMAIN d \cup {k} |-> IF n = k THEN v ELSE d[n]]
\* d.pop(k) replaced by a read that leaves the key in place
DictKeep(d, k) == d

\* d.pop(k)
DictDel(d, k) == [n \in DOMAIN d \ {k} |-> d[n]]
EmptyDict == [n \in {} |-> <<>>]

----------------------------------------------------------------------------
(* _parse_auto_apply_args, one step per loop iteration.                    *)

\* only the bare question mark asks for help
HelpTokensBare == {<<"?">>}

HelpTokens   == {<<"-", "-", "?">>, <<"-", "?">>, <<"?">>}
SourceTokens == {<<"-", "-", "?", "?">>, <<"-", "?", "?">>, <<"?", "?">>}
Dash     == <<"-">>
DashDash == <<"-", "-">>

\* argname2default[argname] for the parameter at index i (defaults are trailing)
FirstWithDefault(spec) == Len(spec.args) - Len(spec.defaults)
HasDefault(spec, i) == i > FirstWithDefault(spec)
\* the default passed through the parser like a token
DefaultOfParsed(spec, i) ==
    LET d == spec.defaults[i - FirstWithDefault(spec)]
    IN  IF d.t = "str" /\ parsable_as_expression(PythonBlock(d.s))
        THEN eval_block(PythonBlock(d.s)) ELSE d

DefaultOf(spec, i) == spec.defaults[i - FirstWithDefault(spec)]

\* the first declared name with that prefix wins
matched_first(spec, argname) ==
    LET m == SelectSeq(spec.args, LAMBDA a : argname \in prefixes(a))
    IN  IF m = <<>> THEN m ELSE <<m[1]>>

\* prefix2argname.get(argname, []): the declared names argname is a prefix of,
\* in declaration order
matched_argnames(spec, argname) ==
    SelectSeq(spec.args, LAMBDA a : argname \in prefixes(a))

\* the option name of a token that starts with "-": dashes stripped, the part
\* before "=", "-" replaced by "_"
OptionText(arg) ==
    IF startswith(arg, DashDash) THEN SubSeq(arg, 3, Len(arg)) ELSE SubSeq(arg, 2, Len(arg))
OptionName(arg) == replace(partition(OptionText(arg), "=")[1], "-", <<"_">>)
OptionEquals(arg) == partition(OptionText(arg), "=")[2]
OptionValue(arg) == partition(OptionText(arg), "=")[3]

\* None where a mode string is expected
ModeNone == <<"None">>

\* the state of the dispatcher and of what surrounds a call of the binder
main_vars == <<main_pc, main_args, self_arg_mode, self_output_mode, action, sys_argv,
               orig_argv, files, isatty, calls, applications, ending, log>>

binder_locals == <<args, got_pos_args, got_pos_src, got_keyword_args, idx,
                   parsed_args, parsed_kwargs>>
binder_input == <<argspec, commandline_args, arg_mode, stdin_data>>
other_calls == <<pvs_arg, mode_arg, mode_alt, mode_res, result, output_mode, stdout>>

Fail(o) ==
    /\ pc' = "raised"
    /\ outcome' = o

\* lines 593-594
ScanHelp ==
    /\ pc = "scan" /\ args # <<>> /\ Head(args) \in HelpTokens
    /\ Fail(Raised("_ParseInterruptedWantHelp"))
    /\ args' = Tail(args)
    /\ UNCHANGED <<main_vars, binder_input, other_calls, ns_globals, stdin_pos, stdin_reads,
                   got_pos_args, got_pos_src, got_keyword_args, idx,
                   parsed_args, parsed_kwargs>>

\* lines 595-596
ScanSource ==
    /\ pc = "scan" /\ args # <<>> /\ Head(args) \in SourceTokens
    /\ Fail(Raised("_ParseInterruptedWantSource"))
    /\ args' = Tail(args)
    /\ UNCHANGED <<main_vars, binder_input, other_calls, ns_globals, stdin_pos, stdin_reads,
                   got_pos_args, got_pos_src, got_keyword_args, idx,
                   parsed_args, parsed_kwargs>>

\* a read that starts over from the beginning of the stream
StdinReadFromStart == stdin_data

\* sys.stdin.read(): everything from the read offset to the end
StdinRead == SubSeq(stdin_data, stdin_pos + 1, Len(stdin_data))

\* lines 598-606
ScanStdin ==
    /\ pc = "scan" /\ args # <<>> /\ Head(args) = Dash
    /\ args' = Tail(args)
    /\ stdin_pos' = Len(stdin_data)
    /\ stdin_reads' = stdin_reads + 1
    /\ got_pos_args' = Append(got_pos_args,
                              IF arg_mode # "string" THEN repr(StdinRead) ELSE StdinRead)
    /\ got_pos_src' = Append(got_pos_src, "stdin")
    /\ UNCHANGED <<pc, outcome, main_vars, binder_input, other_calls, ns_globals,
                   got_keyword_args, idx, parsed_args, parsed_kwargs>>

\* lines 607-615
ScanDashDash ==
    /\ pc = "scan" /\ args # <<>> /\ Head(args) = DashDash
    /\ got_pos_args' = got_pos_args \o
          (IF arg_mode = "string" THEN Tail(args)
           ELSE [i \in 1..Len(Tail(args)) |-> repr(Tail(args)[i])])
    /\ got_pos_src' = got_pos_src \o [i \in 1..Len(Tail(args)) |-> "literal"]
    /\ args' = <<>>
    /\ UNCHANGED <<pc, outcome, main_vars, binder_input, other_calls, ns_globals, stdin_pos,
                   stdin_reads, got_keyword_args, idx, parsed_args, parsed_kwargs>>

IsOptionToken(arg) ==
    /\ arg \notin HelpTokens \cup SourceTokens
    /\ startswith(arg, Dash)
    /\ arg # Dash /\ arg # DashDash

\* a scanner that lets a callable with arbitrary keyword arguments keep
\* every unmatched option name before it looks for help or source
ScanOptionResultKeywordsFirst(spec, toks) ==
    LET arg     == Head(toks)
        argname == OptionName(arg)
        matched == matched_argnames(spec, argname)
        name    == IF Len(matched) = 1 THEN matched[1] ELSE argname
        inline  == OptionValue(arg)
        value   == IF inline # <<>> THEN inline ELSE toks[2]
        rest    == IF inline # <<>> THEN Tail(toks) ELSE Tail(Tail(toks))
    IN  IF ~is_identifier(argname)
            THEN ParseError("Invalid option name", argname)
        ELSE IF Len(matched) = 0 /\ ~spec.keywords /\ OptionEquals(arg) = <<>>
                /\ argname \in {<<"h", "e", "l", "p">>, <<"h">>}
            THEN Raised("_ParseInterruptedWantHelp")
        ELSE IF Len(matched) = 0 /\ ~spec.keywords /\ OptionEquals(arg) = <<>>
                /\ argname = <<"s", "o", "u", "r", "c", "e">>
            THEN Raised("_ParseInterruptedWantSource")
        ELSE IF Len(matched) = 0 /\ ~spec.keywords
            THEN ParseError("Unknown option name", argname)
        ELSE IF Len(matched) > 1
            THEN ParseError("Ambiguous", [argname |-> argname, candidates |-> matched])
        ELSE IF inline = <<>> /\ Len(toks) < 2
            THEN ParseError("Missing argument to", arg)
        ELSE IF inline = <<>> /\ startswith(toks[2], DashDash)
            THEN ParseError("Missing argument to", arg)
        ELSE [kind |-> "option", name |-> name, value |-> value, rest |-> rest]

\* lines 616-653: what scanning the option token Head(args) does.  Either an
\* exception, or the resolved name, its raw value and the tokens left.
ScanOptionResult(spec, toks) ==
    LET arg     == Head(toks)
        argname == OptionName(arg)
        matched == matched_argnames(spec, argname)
        name    == IF Len(matched) = 1 THEN matched[1] ELSE argname
        inline  == OptionValue(arg)
        value   == IF inline # <<>> THEN inline ELSE toks[2]
        rest    == IF inline # <<>> THEN Tail(toks) ELSE Tail(Tail(toks))
    IN  IF ~is_identifier(argname)
            THEN ParseError("Invalid option name", argname)
        ELSE IF Len(matched) = 0 /\ OptionEquals(arg) = <<>>
                /\ argname \in {<<"h", "e", "l", "p">>, <<"h">>}
            THEN Raised("_ParseInterruptedWantHelp")
        ELSE IF Len(matched) = 0 /\ OptionEquals(arg) = <<>>
                /\ argname = <<"s", "o", "u", "r", "c", "e">>
            THEN Raised("_ParseInterruptedWantSource")
        ELSE IF Len(matched) = 0 /\ ~spec.keywords
            THEN ParseError("Unknown option name", argname)
        ELSE IF Len(matched) > 1
            THEN ParseError("Ambiguous", [argname |-> argname, candidates |-> matched])
        ELSE IF inline = <<>> /\ Len(toks) < 2
            THEN ParseError("Missing argument to", arg)
        ELSE IF inline = <<>> /\ startswith(toks[2], DashDash)
            THEN ParseError("Missing argument to", arg)
        ELSE [kind |-> "option", name |-> name, value |-> value, rest |-> rest]

ScanOption ==
    /\ pc = "scan" /\ args # <<>> /\ IsOptionToken(Head(args))
    /\ LET r == ScanOptionResult(argspec, args)
       IN  IF r.kind = "option"
           THEN /\ got_keyword_args' = DictSet(got_keyword_args, r.name, r.value)
                /\ args' = r.rest
                /\ UNCHANGED <<pc, outcome>>
           ELSE /\ Fail(r)
                /\ args' = Tail(args)
                /\ UNCHANGED got_keyword_args
    /\ UNCHANGED <<main_vars, binder_input, other_calls, ns_globals, stdin_pos, stdin_reads,
                   got_pos_args, got_pos_src, idx, parsed_args, parsed_kwargs>>

\* a scanner that evaluates each positional token as soon as it meets it
ScanPositionalEager ==
    /\ pc = "scan" /\ args # <<>>
    /\ Head(args) \notin HelpTokens \cup SourceTokens
    /\ ~startswith(Head(args), Dash)
    /\ got_pos_args' = Append(got_pos_args, Head(args))
    /\ got_pos_src' = Append(got_pos_src, "token")
    /\ args' = Tail(args)
    /\ ns_globals' = parse_value_or_string(Head(args), ns_globals, arg_mode).globals
    /\ UNCHANGED <<pc, outcome, main_vars, binder_input, other_calls, stdin_pos,
                   stdin_reads, got_keyword_args, idx, parsed_args, parsed_kwargs>>

\* lines 654-655
ScanPositional ==
    /\ pc = "scan" /\ args # <<>>
    /\ Head(args) \notin HelpTokens \cup SourceTokens
    /\ ~startswith(Head(args), Dash)
    /\ got_pos_args' = Append(got_pos_args, Head(args))
    /\ got_pos_src' = Append(got_pos_src, "token")
    /\ args' = Tail(args)
    /\ UNCHANGED <<pc, outcome, main_vars, binder_input, other_calls, ns_globals, stdin_pos,
                   stdin_reads, got_keyword_args, idx, parsed_args, parsed_kwargs>>

\* line 591: the while loop ends
ScanEnd ==
    /\ pc = "scan" /\ args = <<>>
    /\ pc' = "reconcile"
    /\ idx' = 1
    /\ UNCHANGED <<outcome, main_vars, binder_input, other_calls, ns_globals, stdin_pos,
                   stdin_reads, args, got_pos_args, got_pos_src, got_keyword_args,
                   parsed_args, parsed_kwargs>>

\* lines 659-679: one iteration of the loop over argspec.args
Reconcile ==
    /\ pc = "reconcile" /\ idx <= Len(argspec.args)
    /\ LET argname == argspec.args[idx]
           haspos  == idx <= Len(got_pos_args)
           haskw   == argname \in DOMAIN got_keyword_args
           r       == parse_value_or_string(
                          IF haspos THEN got_pos_args[idx] ELSE got_keyword_args[argname],
                          ns_globals, arg_mode)
       IN  IF haspos /\ haskw THEN
               /\ Fail(ParseError("specified both as positional argument and keyword argument",
                                  argname))
               /\ UNCHANGED <<ns_globals, got_keyword_args, idx, parsed_args>>
           ELSE IF haspos \/ haskw THEN
               /\ got_keyword_args' =
                     IF haspos THEN got_keyword_args ELSE DictDel(got_keyword_args, argname)
               /\ ns_globals' = r.globals
               /\ IF r.kind = "raise"
                  THEN /\ Fail(Raised(r.exc))
                       /\ UNCHANGED <<idx, parsed_args>>
                  ELSE /\ parsed_args' = Append(parsed_args, r.value)
                       /\ idx' = idx + 1
                       /\ UNCHANGED <<pc, outcome>>
           ELSE IF HasDefault(argspec, idx) THEN
               /\ parsed_args' = Append(parsed_args, DefaultOf(argspec, idx))
               /\ idx' = idx + 1
               /\ UNCHANGED <<pc, outcome, ns_globals, got_keyword_args>>
           ELSE
               /\ Fail(ParseError("missing required argument", argname))
               /\ UNCHANGED <<ns_globals, got_keyword_args, idx, parsed_args>>
    /\ UNCHANGED <<main_vars, binder_input, other_calls, stdin_pos, stdin_reads, args,
                   got_pos_args, got_pos_src, parsed_kwargs>>

\* the range of the expected count forgotten
ExpectedCountSingle(spec) == FormatInt(Len(spec.args))

\* "%d-%d" % (max_nargs-len(defaults), max_nargs) or "%d" % max_nargs
ExpectedCount(spec) ==
    IF Len(spec.defaults) > 0
    THEN FormatInt(Len(spec.args) - Len(spec.defaults)) \o <<"-">> \o FormatInt(Len(spec.args))
    ELSE FormatInt(Len(spec.args))

\* lines 681-695: the test for excess positional arguments
ExcessCheck ==
    /\ pc = "reconcile" /\ idx > Len(argspec.args)
    /\ IF Len(got_pos_args) > Len(argspec.args)
       THEN IF argspec.varargs
            THEN /\ pc' = "excess"
                 /\ UNCHANGED <<outcome, idx>>
            ELSE /\ Fail(ParseError("Too many positional arguments",
                                    [expected |-> ExpectedCount(argspec),
                                     names |-> argspec.args,
                                     got |-> Len(got_pos_args)]))
                 /\ UNCHANGED idx
       ELSE /\ pc' = "kwargs"
            /\ idx' = 1
            /\ UNCHANGED outcome
    /\ UNCHANGED <<main_vars, binder_input, other_calls, ns_globals, stdin_pos, stdin_reads,
                   args, got_pos_args, got_pos_src, got_keyword_args, parsed_args,
                   parsed_kwargs>>

\* lines 683-684: one iteration of the loop over the excess positional arguments
ExcessStep ==
    /\ pc = "excess"
    /\ IF idx > Len(got_pos_args)
       THEN /\ pc' = "kwargs"
            /\ idx' = 1
            /\ UNCHANGED <<outcome, ns_globals, parsed_args>>
       ELSE LET r == parse_value_or_string(got_pos_args[idx], ns_globals, arg_mode)
            IN  /\ ns_globals' = r.globals
                /\ IF r.kind = "raise"
                   THEN /\ Fail(Raised(r.exc))
                        /\ UNCHANGED <<idx, parsed_args>>
                   ELSE /\ parsed_args' = Append(parsed_args, r.value)
                        /\ idx' = idx + 1
                        /\ UNCHANGED <<pc, outcome>>
    /\ UNCHANGED <<main_vars, binder_input, other_calls, stdin_pos, stdin_reads, args,
                   got_pos_args, got_pos_src, got_keyword_args, parsed_kwargs>>

\* lines 697-703: one iteration of the loop over sorted(got_keyword_args.items())
KwargStep ==
    /\ pc = "kwargs" /\ idx <= Cardinality(DOMAIN got_keyword_args)
    /\ LET argname == SortedKeys(DOMAIN got_keyword_args)[idx]
           r == parse_value_or_string(got_keyword_args[argname], ns_globals, arg_mode)
       IN  /\ ns_globals' = r.globals
           /\ IF r.kind = "raise"
              THEN /\ Fail(ParseError("Error parsing value for",
                                      [argname |-> argname,
                                       value |-> got_keyword_args[argname],
                                       exc |-> r.exc]))
                   /\ UNCHANGED <<idx, parsed_kwargs>>
              ELSE /\ parsed_kwargs' = DictSet(parsed_kwargs, argname, r.value)
                   /\ idx' = idx + 1
                   /\ UNCHANGED <<pc, outcome>>
    /\ UNCHANGED <<main_vars, binder_input, other_calls, stdin_pos, stdin_reads, args,
                   got_pos_args, got_pos_src, got_keyword_args, parsed_args>>

\* line 705
BindReturn ==
    /\ pc = "kwargs" /\ idx > Cardinality(DOMAIN got_keyword_args)
    /\ pc' = "done"
    /\ outcome' = [kind |-> "return", args |-> parsed_args, kwargs |-> parsed_kwargs]
    /\ UNCHANGED <<main_vars, binder_input, other_calls, ns_globals, stdin_pos, stdin_reads,
                   binder_locals>>

----------------------------------------------------------------------------
(* auto_apply around the binder: lines 865-897.                            *)

Running == [kind |-> "running"]
SystemExit(code) == [kind |-> "exit", code |-> code]
Uncaught(exc) == [kind |-> "exception", exc |-> exc]

\* what _get_help(function, function_name, verbosity) gives, written to a stream
HelpText(stream, verbosity) == [stream |-> stream, what |-> "help", verbosity |-> verbosity]
\* logger.error(...)
ErrorLogged(what, info) == [stream |-> "log", what |-> what, info |-> info]

\* function(*args, **kwargs): the callables the model applies return their
\* first positional argument, None without one
FunctionResult(a) == IF a = <<>> THEN NoneV ELSE a[1]

\* lines 884-897: the binding succeeded, the function is called
AutoApplyCall ==
    /\ pc = "done"
    /\ calls' = Append(calls, [args |-> outcome.args, kwargs |-> outcome.kwargs])
    /\ result' = FunctionResult(outcome.args)
    /\ pc' = "applied"
    /\ UNCHANGED <<binder_input, binder_locals, ns_globals, stdin_pos, stdin_reads,
                   outcome, pvs_arg, mode_arg, mode_alt, mode_res, output_mode, stdout,
                   main_pc, main_args, self_arg_mode, self_output_mode, action,
                   sys_argv, orig_argv, files, isatty, applications, ending, log>>

auto_apply_frame == <<binder_input, binder_locals, ns_globals, stdin_pos, stdin_reads,
                      outcome, other_calls, main_pc, main_args, self_arg_mode,
                      self_output_mode, action, sys_argv, orig_argv, files, isatty,
                      calls, applications>>

\* lines 868-871
AutoApplyWantHelp ==
    /\ pc = "raised" /\ outcome = Raised("_ParseInterruptedWantHelp")
    /\ log' = Append(log, HelpText("stdout", 1))
    /\ ending' = SystemExit(0)
    /\ pc' = "exited"
    /\ UNCHANGED auto_apply_frame

\* lines 872-875
AutoApplyWantSource ==
    /\ pc = "raised" /\ outcome = Raised("_ParseInterruptedWantSource")
    /\ log' = Append(log, HelpText("stdout", 2))
    /\ ending' = SystemExit(0)
    /\ pc' = "exited"
    /\ UNCHANGED auto_apply_frame

\* lines 876-882; the verbosity of the usage text follows logger.info_enabled
AutoApplyParseError ==
    /\ pc = "raised" /\ outcome.exc = "ParseError"
    /\ \E info_enabled \in BOOLEAN :
          log' = log \o <<ErrorLogged("ParseError", outcome.msg),
                          HelpText("stderr", IF info_enabled THEN 1 ELSE 0)>>
    /\ ending' = SystemExit(1)
    /\ pc' = "exited"
    /\ UNCHANGED auto_apply_frame

\* no except clause of lines 868-876 matches: the exception leaves auto_apply
AutoApplyPropagate ==
    /\ pc = "raised"
    /\ outcome.exc \notin {"_ParseInterruptedWantHelp", "_ParseInterruptedWantSource",
                           "ParseError"}
    /\ ending' = Uncaught(outcome.exc)
    /\ pc' = "propagated"
    /\ UNCHANGED <<auto_apply_frame, log>>

----------------------------------------------------------------------------
(* The calls the binder is explored on.                                    *)

MaxTokens == 3

Str_year   == <<"y", "e", "a", "r">>
Str_month  == <<"m", "o", "n", "t", "h">>
Str_day    == <<"d", "a", "y">>
Str_foo    == <<"f", "o", "o">>
Str_foobar == <<"f", "o", "o", "b", "a", "r">>
Str_foobaz == <<"f", "o", "o", "b", "a", "z">>
Str_x      == <<"x">>
Str_y      == <<"y">>
Str_hi     == <<"h", "i">>

Tok_day16    == <<"-", "-", "d", "a", "y", "=", "1", "6">>
Tok_month7   == <<"-", "-", "m", "o", "n", "t", "h", "=", "7">>
Tok_year2014 == <<"-", "-", "y", "e", "a", "r", "=", "2", "0", "1", "4">>
Tok_d        == <<"-", "d">>
Tok_foo1     == <<"-", "-", "f", "o", "o", "=", "1">>
Tok_fooba1   == <<"-", "-", "f", "o", "o", "b", "a", "=", "1">>
Tok_foobar1  == <<"-", "-", "f", "o", "o", "b", "a", "r", "=", "1">>
Tok_foobaz2  == <<"-", "-", "f", "o", "o", "b", "a", "z", "=", "2">>
Tok_x1       == <<"-", "-", "x", "=", "1">>
Tok_x        == <<"-", "x">>
Tok_z1       == <<"-", "-", "z", "=", "1">>
Tok_help     == <<"-", "-", "h", "e", "l", "p">>
Tok_source   == <<"-", "-", "s", "o", "u", "r", "c", "e">>
Tok_bad      == <<"-", "-", "5">>
Tok_foo      == <<"-", "-", "f", "o", "o">>
Tok_help1    == <<"-", "-", "h", "e", "l", "p", "=", "1">>
Tok_xeq      == <<"-", "-", "x", "=">>
Tok_q        == <<"?">>
Tok_dq       == <<"-", "?">>
Tok_ddqq     == <<"-", "-", "?", "?">>
Tok_qq       == <<"?", "?">>
Tok_3        == <<"3">>
Tok_4        == <<"4">>
Tok_7        == <<"7">>
Tok_2014     == <<"2", "0", "1", "4">>
Tok_5foo     == <<"5", "f", "o", "o", "+", "2">>
Tok_foo5     == <<"f", "o", "o", "5", "+", "2">>
Tok_5plus2   == <<"5", "+", "2">>
Tok_os       == <<"o", "s">>

\* stdin contents: text that would evaluate to a number if it were evaluated,
\* and text with a quote and a backslash in it
Stdin_4     == <<"4">>
Stdin_quote == <<"'", "\\", "\n">>

ArgSpec(a, d, va, kw) == [args |-> a, defaults |-> d, varargs |-> va, keywords |-> kw]

Scenarios == {
    [argspec |-> ArgSpec(<<Str_year, Str_month, Str_day>>, <<>>, FALSE, FALSE),
     tokens  |-> {Tok_day16, Tok_month7, Tok_year2014, Tok_d, Tok_7, Tok_2014, Tok_5foo},
     stdin   |-> {Stdin_4}],
    [argspec |-> ArgSpec(<<Str_foobar, Str_foobaz>>, <<>>, FALSE, FALSE),
     tokens  |-> {Tok_foo1, Tok_fooba1, Tok_foobar1, Tok_foobaz2, Tok_3, Tok_q, Tok_help},
     stdin   |-> {Stdin_4}],
    [argspec |-> ArgSpec(<<Str_x>>, <<>>, FALSE, FALSE),
     tokens  |-> {Tok_3, Tok_4, Tok_x1, Tok_x, Dash, DashDash, Tok_5foo},
     stdin   |-> {Stdin_4, Stdin_quote}],
    [argspec |-> ArgSpec(<<Str_x, Str_y>>, <<StrV(Tok_7)>>, FALSE, FALSE),
     tokens  |-> {Tok_3, Tok_4, Tok_5plus2, Tok_x, Tok_bad, Tok_qq, Tok_source},
     stdin   |-> {Stdin_4}],
    [argspec |-> ArgSpec(<<Str_x, Str_y>>, <<StrV(Str_hi)>>, TRUE, TRUE),
     tokens  |-> {Tok_3, Tok_foo5, Tok_os, Tok_z1, Dash, DashDash, Tok_q, Tok_x},
     stdin   |-> {Stdin_4, Stdin_quote}],
    [argspec |-> ArgSpec(<<Str_foo, Str_foobar>>, <<>>, FALSE, FALSE),
     tokens  |-> {Tok_foo1, Tok_foobar1, Tok_foo, Tok_dq, Tok_ddqq, Tok_3},
     stdin   |-> {Stdin_4}],
    [argspec |-> ArgSpec(<<Str_x>>, <<>>, FALSE, TRUE),
     tokens  |-> {Tok_help, Tok_source, Tok_help1, Tok_z1, Tok_xeq, Tok_3},
     stdin   |-> {Stdin_4}],
    [argspec |-> ArgSpec(<<Str_x>>, <<>>, FALSE, FALSE),
     tokens  |-> {Tok_help, Tok_source, Tok_help1, Tok_z1, Tok_xeq, Tok_3},
     stdin   |-> {Stdin_4}]
}

BoundedSeqs(S, n) == UNION {[1..k -> S] : k \in 0..n}

BinderModes == {"string", "eval", "auto"}

\* a plain list as sys.argv, and the program's own argument vector
PlainArgv(items) == [logged |-> FALSE, items |-> items, unaccessed |-> <<>>]
Str_py == <<"p", "y">>

NoAction == [name |-> "none"]

IdleMain ==
    /\ main_pc = "idle"
    /\ main_args = <<>>
    /\ self_arg_mode = ModeNone /\ self_output_mode = ModeNone
    /\ action = NoAction
    /\ sys_argv = PlainArgv(<<Str_py>>) /\ orig_argv = PlainArgv(<<>>)
    /\ files = {} /\ isatty = FALSE
    /\ calls = <<>> /\ applications = <<>>
    /\ ending = Running
    /\ log = <<>>

IdleOthers ==
    /\ IdleMain
    /\ pvs_arg = <<>>
    /\ mode_arg = <<>> /\ mode_alt = <<>> /\ mode_res = <<>>
    /\ result = NoneV /\ output_mode = <<>> /\ stdout = <<>>

IdleBinder ==
    /\ IdleMain
    /\ argspec = ArgSpec(<<>>, <<>>, FALSE, FALSE)
    /\ commandline_args = <<>>
    /\ stdin_data = <<>> /\ stdin_pos = 0 /\ stdin_reads = 0
    /\ args = <<>> /\ got_pos_args = <<>> /\ got_pos_src = <<>>
    /\ got_keyword_args = EmptyDict /\ idx = 0
    /\ parsed_args = <<>> /\ parsed_kwargs = EmptyDict

\* _parse_auto_apply_args is entered: lines 588-590
Init ==
    /\ pc = "scan"
    /\ \E sc \in Scenarios :
          /\ argspec = sc.argspec
          /\ commandline_args \in BoundedSeqs(sc.tokens, MaxTokens)
          /\ stdin_data \in sc.stdin
    /\ arg_mode \in BinderModes
    /\ ns_globals = {}
    /\ stdin_pos = 0 /\ stdin_reads = 0
    /\ args = commandline_args
    /\ got_pos_args = <<>> /\ got_pos_src = <<>>
    /\ got_keyword_args = EmptyDict
    /\ idx = 0
    /\ parsed_args = <<>> /\ parsed_kwargs = EmptyDict
    /\ outcome = NoOutcome
    /\ IdleOthers

Next ==
    \/ ScanHelp \/ ScanSource \/ ScanStdin \/ ScanDashDash \/ ScanOption
    \/ ScanPositional \/ ScanEnd
    \/ Reconcile \/ ExcessCheck \/ ExcessStep \/ KwargStep \/ BindReturn

Spec == Init /\ [][Next]_vars

\* auto_apply: the binder, then what auto_apply does with the binder's outcome
NextApply ==
    \/ Next
    \/ AutoApplyCall \/ AutoApplyWantHelp \/ AutoApplyWantSource
    \/ AutoApplyParseError \/ AutoApplyPropagate

SpecApply == Init /\ [][NextApply]_vars

----------------------------------------------------------------------------
(* Direct calls of _parse_value_or_string.                                 *)

Tok_1div0    == <<"1", "/", "0">>
Tok_5plusStr == <<"5", "+", "'", "a", "'">>
Tok_strlit   == <<"'", "a", "'">>
Tok_foo_bar  == <<"f", "o", "o", "-", "b", "a", "r">>
Tok_os_foo5  == <<"o", "s", "+", "f", "o", "o", "5">>
Tok_3div4    == <<"3", "/", "4">>

ParseArgs == {Tok_5foo, Tok_foo5, Tok_5plus2, Tok_os, Tok_3, Tok_1div0, Tok_5plusStr,
              Tok_strlit, Tok_foo_bar, Tok_os_foo5, Tok_3div4, Dash, <<>>}

AllModes == {"string", "eval", "auto", "error"}

InitParse ==
    /\ pc = "pvs_call"
    /\ pvs_arg \in ParseArgs
    /\ arg_mode \in AllModes
    /\ ns_globals \in {{}, {Tok_os}}
    /\ outcome = NoOutcome
    /\ IdleBinder
    /\ mode_arg = <<>> /\ mode_alt = <<>> /\ mode_res = <<>>
    /\ result = NoneV /\ output_mode = <<>> /\ stdout = <<>>

\* a call of _parse_value_or_string(pvs_arg, namespace, arg_mode)
ParseCall ==
    /\ pc = "pvs_call"
    /\ LET r == parse_value_or_string(pvs_arg, ns_globals, arg_mode)
       IN  /\ ns_globals' = r.globals
           /\ outcome' = IF r.kind = "return" THEN Returned(r.value) ELSE Raised(r.exc)
    /\ pc' = "pvs_done"
    /\ UNCHANGED <<main_vars, binder_input, binder_locals, stdin_pos, stdin_reads, other_calls>>

NextParse == ParseCall

SpecParse == InitParse /\ [][NextParse]_vars

----------------------------------------------------------------------------
(* Properties of the binder (checked under Spec).                          *)

\* the value the parser gives a raw argument in the current namespace and mode
ParsedValue(raw) == parse_value_or_string(raw, ns_globals, arg_mode).value

NumDeclared == Len(argspec.args)
NumRequired == Len(argspec.args) - Len(argspec.defaults)

\* C1: whenever the binder returns normally, the positional list holds one
\* value for every declared parameter, in declaration order (a positional
\* token at index i is the value of parameter i, a required parameter without
\* one was given by an option), and no declared parameter name is in the
\* returned keyword map or was given both positionally and as an option.
C1_EveryParameterBoundOnce ==
    pc = "done" =>
        /\ Len(outcome.args) =
              IF Len(got_pos_args) > NumDeclared THEN Len(got_pos_args) ELSE NumDeclared
        /\ DOMAIN outcome.kwargs = DOMAIN got_keyword_args
        /\ \A i \in 1..NumDeclared :
              /\ argspec.args[i] \notin DOMAIN outcome.kwargs
              /\ i <= Len(got_pos_args) => outcome.args[i] = ParsedValue(got_pos_args[i])
              /\ (i > Len(got_pos_args) /\ i <= NumRequired) =>
                    \E k \in 1..Len(commandline_args) :
                        /\ startswith(commandline_args[k], Dash)
                        /\ startswith(argspec.args[i], OptionName(commandline_args[k]))

\* a return where one parameter is bound positionally and a required one by option
C1_Witness ==
    /\ pc = "done"
    /\ Len(got_pos_args) = 1
    /\ NumRequired = 3

C2_Permutations ==
    {<<Tok_day16, Tok_month7, Tok_year2014>>, <<Tok_day16, Tok_year2014, Tok_month7>>,
     <<Tok_month7, Tok_day16, Tok_year2014>>, <<Tok_month7, Tok_year2014, Tok_day16>>,
     <<Tok_year2014, Tok_day16, Tok_month7>>, <<Tok_year2014, Tok_month7, Tok_day16>>}

C2_Scenario ==
    (/\ argspec.args = <<Str_year, Str_month, Str_day>>
     /\ arg_mode = "auto"
     /\ commandline_args \in C2_Permutations)
    => /\ pc # "raised"
       /\ pc = "done" => /\ outcome.args = <<IntV(2014), IntV(7), IntV(16)>>
                         /\ outcome.kwargs = EmptyDict

C2_Rule ==
    (pc = "reconcile" /\ idx <= NumDeclared) =>
        LET argname == argspec.args[idx]
            haspos  == idx <= Len(got_pos_args)
            haskw   == argname \in DOMAIN got_keyword_args
            r == parse_value_or_string(
                     IF haspos THEN got_pos_args[idx] ELSE got_keyword_args[argname],
                     ns_globals, arg_mode)
        IN  /\ (haspos /\ haskw) =>
                  /\ pc' = "raised"
                  /\ outcome'.exc = "ParseError"
                  /\ outcome'.msg = "specified both as positional argument and keyword argument"
            /\ ((haspos \/ haskw) /\ ~(haspos /\ haskw)) =>
                  IF r.kind = "return"
                  THEN pc' = "reconcile" /\ parsed_args' = Append(parsed_args, r.value)
                  ELSE pc' = "raised"
            /\ (~haspos /\ ~haskw /\ idx > NumRequired) =>
                  /\ pc' = "reconcile"
                  /\ parsed_args' = Append(parsed_args, argspec.defaults[idx - NumRequired])
                  /\ ns_globals' = ns_globals
            /\ (~haspos /\ ~haskw /\ idx <= NumRequired) =>
                  /\ pc' = "raised"
                  /\ outcome'.exc = "ParseError"
                  /\ outcome'.msg = "missing required argument"

\* C2: each declared parameter is reconciled, in declaration order, by the
\* rule: positional token at its index (an error if it was also given as an
\* option), else its option value, both parsed; else its default, unparsed;
\* else a 'missing required argument' ParseError.  And (year, month, day)
\* with --day=16 --month=7 --year=2014 in any order binds (2014, 7, 16).
C2_Reconciliation == [](C2_Scenario) /\ [][C2_Rule]_vars

C2_Witness ==
    /\ pc = "done"
    /\ commandline_args = <<Tok_day16, Tok_month7, Tok_year2014>>
    /\ arg_mode = "auto"
    /\ outcome.args = <<IntV(2014), IntV(7), IntV(16)>>

C3_Scenario ==
    (/\ argspec.args = <<Str_foobar, Str_foobaz>>
     /\ Len(args) < Len(commandline_args))
    => /\ commandline_args[1] \in {Tok_foo1, Tok_fooba1} =>
             /\ pc = "raised"
             /\ outcome.exc = "ParseError"
             /\ outcome.msg = "Ambiguous"
             /\ outcome.info.candidates = <<Str_foobar, Str_foobaz>>
       /\ commandline_args[1] = Tok_foobar1 =>
             /\ pc = "scan" => /\ Str_foobar \in DOMAIN got_keyword_args
                               /\ got_keyword_args[Str_foobar] = <<"1">>
             /\ ~(/\ pc = "raised"
                  /\ outcome.exc = "ParseError"
                  /\ outcome.msg = "Ambiguous"
                  /\ outcome.info.argname = Str_foobar)

C3_Rule ==
    (/\ pc = "scan" /\ args # <<>>
     /\ IsOptionToken(Head(args))
     /\ is_identifier(OptionName(Head(args)))) =>
        LET cands == {a \in Range(argspec.args) : startswith(a, OptionName(Head(args)))}
        IN  /\ Cardinality(cands) >= 2 =>
                  /\ pc' = "raised"
                  /\ outcome'.exc = "ParseError"
                  /\ outcome'.msg = "Ambiguous"
                  /\ Range(outcome'.info.candidates) = cands
            /\ Cardinality(cands) = 1 =>
                  \/ /\ pc' = "scan"
                     /\ DOMAIN got_keyword_args' = DOMAIN got_keyword_args \cup cands
                  \/ /\ pc' = "raised"
                     /\ outcome'.exc = "ParseError"
                     /\ outcome'.msg = "Missing argument to"

\* C3: an option name that is a prefix of exactly one declared parameter
\* resolves to it; one that is a prefix of two or more fails with an
\* ambiguity ParseError naming every candidate.  With (foobar, foobaz):
\* --foo=1 and --fooba=1 fail naming both, --foobar=1 resolves to foobar.
C3_PrefixResolution == [](C3_Scenario) /\ [][C3_Rule]_vars

C3_Witness ==
    /\ pc = "raised"
    /\ commandline_args = <<Tok_foobar1, Tok_fooba1>>
    /\ outcome.exc = "ParseError"
    /\ outcome.msg = "Ambiguous"
    /\ DOMAIN got_keyword_args = {Str_foobar}

C4_State ==
    /\ (pc = "done" /\ Len(got_pos_args) > NumDeclared) =>
          /\ argspec.varargs
          /\ Len(outcome.args) = Len(got_pos_args)
          /\ \A j \in (NumDeclared + 1)..Len(got_pos_args) :
                outcome.args[j] = ParsedValue(got_pos_args[j])
    /\ (pc = "raised" /\ outcome.exc = "ParseError"
        /\ outcome.msg = "Too many positional arguments") =>
          /\ ~argspec.varargs
          /\ Len(got_pos_args) > NumDeclared
          /\ (NumDeclared = 1 /\ NumRequired = 1) => outcome.info.expected = <<"1">>
          /\ (NumDeclared = 2 /\ NumRequired = 1) => outcome.info.expected = <<"1", "-", "2">>
          /\ (NumDeclared = 2 /\ NumRequired = 2) => outcome.info.expected = <<"2">>
          /\ (NumDeclared = 3 /\ NumRequired = 3) => outcome.info.expected = <<"3">>
    /\ (argspec.args = <<Str_x>> /\ ~argspec.varargs
        /\ commandline_args = <<Tok_3, Tok_4>> /\ pc \in {"done", "raised"}) =>
          /\ pc = "raised"
          /\ outcome.exc = "ParseError"
          /\ outcome.msg = "Too many positional arguments"
          /\ outcome.info.expected = <<"1">>

C4_Rule ==
    (/\ pc = "reconcile" /\ idx > NumDeclared
     /\ Len(got_pos_args) > NumDeclared) =>
        IF argspec.varargs THEN pc' = "excess"
        ELSE /\ pc' = "raised"
             /\ outcome'.exc = "ParseError"
             /\ outcome'.msg = "Too many positional arguments"
             /\ outcome'.info.expected =
                   IF NumRequired = NumDeclared THEN FormatInt(NumDeclared)
                   ELSE FormatInt(NumRequired) \o <<"-">> \o FormatInt(NumDeclared)

\* C4: once the declared parameters are reconciled and the positional tokens
\* outnumber them: with a variadic-positional slot each excess token is
\* parsed and appended in token order; without one the binder fails with
\* 'Too many positional arguments', the expected count being N, or (N-D)-N
\* when D parameters have defaults.  (x,) with 3 4 fails with expected count 1.
C4_ExcessPositionals == [](C4_State) /\ [][C4_Rule]_vars

C4_Witness ==
    /\ pc = "raised"
    /\ argspec.args = <<Str_x>>
    /\ commandline_args = <<Tok_3, Tok_4>>
    /\ outcome.exc = "ParseError"
    /\ outcome.msg = "Too many positional arguments"

\* the positions of got_pos_args that were filled by reading stdin
StdinSlots == {j \in 1..Len(got_pos_src) : got_pos_src[j] = "stdin"}

\* C7 as stated: stdin is read at most once and every '-' binds the whole
\* content of stdin as a string.
C7_EveryDashBindsWholeStdin ==
    /\ stdin_reads <= 1
    /\ pc = "done" => \A j \in StdinSlots : outcome.args[j] = StrV(stdin_data)

\* C7 (amended): every '-' the scanner reaches calls sys.stdin.read() once; the
\* first read returns the whole content and leaves the stream at its end, each
\* later read returns the empty string; what was read is bound as a str,
\* unevaluated, in string, eval and auto mode.
C7_EachDashReadsStdinOnce ==
    /\ stdin_reads = Cardinality(StdinSlots)
    /\ stdin_pos = IF stdin_reads = 0 THEN 0 ELSE Len(stdin_data)
    /\ pc = "done" =>
          \A j \in StdinSlots :
              outcome.args[j] =
                  StrV(IF j = MinOf(StdinSlots) THEN stdin_data ELSE <<>>)

\* a return in eval mode after two '-' tokens, stdin holding the text 4
C7_Witness ==
    /\ pc = "done"
    /\ arg_mode = "eval"
    /\ stdin_data = Stdin_4
    /\ Cardinality(StdinSlots) = 2
    /\ outcome.args[MinOf(StdinSlots)] = StrV(Stdin_4)

\* index of the first bare "--" of the token list
FirstDashDash ==
    MinOf({k \in 1..Len(commandline_args) : commandline_args[k] = DashDash})

\* C8: after a bare '--' every later token, whatever its text, is a positional
\* argument bound to exactly its text as a str, in token order, in string,
\* eval and auto mode.
C8_AfterDashDashLiteral ==
    (pc = "done" /\ DashDash \in Range(commandline_args)) =>
        LET m == Len(commandline_args) - FirstDashDash
            p == Len(got_pos_args) - m
        IN  /\ p >= 0
            /\ \A j \in 1..m :
                  outcome.args[p + j] = StrV(commandline_args[FirstDashDash + j])

\* a return in eval mode where '--' is followed by an option-like token and '-'
C8_Witness ==
    /\ pc = "done"
    /\ arg_mode = "eval"
    /\ Len(commandline_args) = 3
    /\ commandline_args[1] = DashDash
    /\ commandline_args[2] = Tok_x
    /\ commandline_args[3] = Dash
    /\ outcome.args = <<StrV(Tok_x), StrV(Dash)>>

\* C14 as stated: whenever the binder ends without a binding, auto_apply
\* handles it and does not call the function: want-help prints the help at
\* verbosity 1 and exits 0, want-source prints it at verbosity 2 and exits 0, a
\* ParseError is logged with the usage text and exits 1; nothing else leaves
\* auto_apply.
C14_BinderFailuresHandled ==
    /\ pc \in {"exited", "propagated"} =>
          /\ calls = <<>>
          /\ pc = "exited"
          /\ outcome = Raised("_ParseInterruptedWantHelp") =>
                (ending = SystemExit(0) /\ log = <<HelpText("stdout", 1)>>)
          /\ outcome = Raised("_ParseInterruptedWantSource") =>
                (ending = SystemExit(0) /\ log = <<HelpText("stdout", 2)>>)
          /\ outcome.exc = "ParseError" =>
                /\ ending = SystemExit(1)
                /\ Len(log) = 2
                /\ log[1] = ErrorLogged("ParseError", outcome.msg)
                /\ log[2].what = "help" /\ log[2].stream = "stderr"
    /\ pc = "applied" => (Len(calls) = 1 /\ ending = Running)

\* C18 as stated: an option whose name is exactly a declared parameter name is
\* never rejected as ambiguous, and with parameters (foo, foobar) the token
\* --foo=1 records the value 1 for foo.
C18_ExactNameNeverAmbiguous ==
    /\ ~(/\ pc = "raised"
         /\ outcome.exc = "ParseError"
         /\ outcome.msg = "Ambiguous"
         /\ outcome.info.argname \in Range(argspec.args))
    /\ (/\ argspec.args = <<Str_foo, Str_foobar>>
        /\ commandline_args # <<>>
        /\ commandline_args[1] = Tok_foo1
        /\ Len(args) < Len(commandline_args))
       => (pc = "scan" => /\ Str_foo \in DOMAIN got_keyword_args
                          /\ got_keyword_args[Str_foo] = <<"1">>)

\* the option token the scanner is about to take resolves to a name that an
\* earlier option token of the same list already gave a value
RepeatedOption ==
    /\ pc = "scan" /\ args # <<>>
    /\ IsOptionToken(Head(args))
    /\ LET r == ScanOptionResult(argspec, args)
       IN  /\ r.kind = "option"
           /\ r.name \in DOMAIN got_keyword_args

\* C19 as stated: a second option token that resolves to a parameter name an
\* earlier option token already resolved to makes the binder fail; it never
\* replaces the earlier value.
C19_RepeatedOptionFails ==
    [][RepeatedOption => (pc' = "raised" /\ outcome'.exc = "ParseError")]_vars

\* the scanner is about to take an option token whose name is an identifier
\* that is no declared parameter and no prefix of one
UnmatchedOption ==
    /\ pc = "scan" /\ args # <<>>
    /\ IsOptionToken(Head(args))
    /\ is_identifier(OptionName(Head(args)))
    /\ matched_argnames(argspec, OptionName(Head(args))) = <<>>

\* the option token is written without '=' and its name asks for help or source
BareTrigger(arg) ==
    /\ OptionEquals(arg) = <<>>
    /\ OptionName(arg) \in {<<"h", "e", "l", "p">>, <<"h">>, <<"s", "o", "u", "r", "c", "e">>}

\* the interrupt that belongs to the name of an option token
TriggerOf(arg) ==
    IF OptionName(arg) = <<"s", "o", "u", "r", "c", "e">>
    THEN Raised("_ParseInterruptedWantSource")
    ELSE Raised("_ParseInterruptedWantHelp")

\* the scanner keeps the literal name of the option token as a keyword
\* argument, or finds its value missing
KeptAsKeyword(arg) ==
    \/ /\ pc' = "scan"
       /\ OptionName(arg) \in DOMAIN got_keyword_args'
    \/ /\ pc' = "raised"
       /\ outcome'.exc = "ParseError" /\ outcome'.msg = "Missing argument to"

\* C21 as stated: for an option name that matches no declared parameter, a
\* callable that accepts arbitrary keyword arguments keeps the name as a new
\* keyword argument, help, h and source included; otherwise a bare help or
\* source name raises its interrupt; otherwise binding fails with an
\* unknown-option ParseError.
C21_KeywordsBeforeTriggers ==
    [][UnmatchedOption =>
          IF argspec.keywords THEN KeptAsKeyword(Head(args))
          ELSE IF BareTrigger(Head(args))
              THEN pc' = "raised" /\ outcome' = TriggerOf(Head(args))
          ELSE pc' = "raised" /\ outcome' = ParseError("Unknown option name",
                                                       OptionName(Head(args)))
      ]_vars

\* C21 (amended): for an option name that matches no declared parameter, a
\* token written without '=' whose name is help, h or source raises its
\* interrupt, whether or not the callable accepts arbitrary keyword
\* arguments; otherwise a callable that accepts arbitrary keyword arguments
\* keeps the name as a new keyword argument; otherwise binding fails with an
\* unknown-option ParseError.
C21_TriggersBeforeKeywords ==
    [][UnmatchedOption =>
          IF BareTrigger(Head(args))
              THEN pc' = "raised" /\ outcome' = TriggerOf(Head(args))
          ELSE IF argspec.keywords THEN KeptAsKeyword(Head(args))
          ELSE pc' = "raised" /\ outcome' = ParseError("Unknown option name",
                                                       OptionName(Head(args)))
      ]_vars

\* --help=1 was kept as the keyword argument help of a callable that accepts
\* arbitrary keyword arguments, and a later --help then raised the interrupt
C21_Witness ==
    /\ argspec.keywords
    /\ commandline_args = <<Tok_help1, Tok_help>>
    /\ <<"h", "e", "l", "p">> \in DOMAIN got_keyword_args
    /\ pc = "raised"
    /\ outcome = Raised("_ParseInterruptedWantHelp")

\* the help/source tokens at position i of the token list
IsInterruptToken(tok) == tok \in HelpTokens \cup SourceTokens

\* the interrupt that belongs to a help/source token
InterruptOf(tok) ==
    IF tok \in {<<"?">>, <<"-", "?">>, <<"-", "-", "?">>}
    THEN Raised("_ParseInterruptedWantHelp")
    ELSE Raised("_ParseInterruptedWantSource")

\* C20 as stated: a help/source token anywhere in the token list aborts the
\* binding with the corresponding interrupt; no binding is returned.
C20_InterruptTokenAnywhere ==
    (/\ pc \in {"done", "raised"}
     /\ \E i \in 1..Len(commandline_args) : IsInterruptToken(commandline_args[i]))
    => /\ pc = "raised"
       /\ \E i \in 1..Len(commandline_args) :
             /\ IsInterruptToken(commandline_args[i])
             /\ outcome = InterruptOf(commandline_args[i])

\* token i of the list is not interpreted by the scanner: it follows a bare
\* '--', or it directly follows an option token written without '=value'
NotInterpreted(i) ==
    \/ \E j \in 1..(i - 1) : commandline_args[j] = DashDash
    \/ /\ i > 1
       /\ IsOptionToken(commandline_args[i - 1])
       /\ OptionValue(commandline_args[i - 1]) = <<>>

C20_State ==
    pc = "done" =>
        \A i \in 1..Len(commandline_args) :
            IsInterruptToken(commandline_args[i]) => NotInterpreted(i)

C20_Rule ==
    (/\ pc = "scan" /\ args # <<>>
     /\ Head(args) \in {<<"?">>, <<"-", "?">>, <<"-", "-", "?">>,
                        <<"?", "?">>, <<"-", "?", "?">>, <<"-", "-", "?", "?">>})
    => /\ pc' = "raised"
       /\ outcome' = InterruptOf(Head(args))
       /\ got_pos_args' = got_pos_args
       /\ got_keyword_args' = got_keyword_args

\* C20 (amended): whenever the scanner takes one of '?', '-?', '--?' (help) or
\* '??', '-??', '--??' (source) as the next token to interpret, the binding is
\* aborted with the corresponding interrupt and nothing is returned; such a
\* token is not interpreted when it follows a bare '--' (it is then a literal
\* positional), when it is consumed as the value of the option token before
\* it, or when an earlier token already made the binding fail.
C20_InterruptTokenWhenScanned == [](C20_State) /\ [][C20_Rule]_vars

\* the second token is '-?' and raises the want-help interrupt
C20_Witness ==
    /\ pc = "raised"
    /\ Len(commandline_args) >= 2
    /\ commandline_args[1] = Tok_3
    /\ commandline_args[2] = Tok_dq
    /\ outcome = Raised("_ParseInterruptedWantHelp")
    /\ got_pos_args = <<Tok_3>>

----------------------------------------------------------------------------
(* Properties of _parse_value_or_string (checked under SpecParse).         *)

PvsBlock == PythonBlock(pvs_arg)
\* after the call the namespace holds every name the importer could import,
\* so a free name missing from it is neither defined nor importable
PvsUnresolved == ~(FreeNames(PvsBlock) \subseteq ns_globals)

\* C5: in auto mode the token is returned as a string exactly when it does
\* not parse as an expression or parses with a free name that is neither
\* defined nor importable; otherwise the evaluated value is returned, and any
\* other failure of the evaluation propagates.
C5_AutoFallsBackToString ==
    (pc = "pvs_done" /\ arg_mode = "auto") =>
        /\ (outcome = Returned(StrV(pvs_arg)))
              <=> (~parsable_as_expression(PvsBlock) \/ PvsUnresolved)
        /\ (parsable_as_expression(PvsBlock) /\ ~PvsUnresolved) =>
              IF eval_block(PvsBlock).t = "error"
              THEN outcome = Raised(eval_block(PvsBlock).exc)
              ELSE outcome = Returned(eval_block(PvsBlock))
        /\ pvs_arg = Tok_5foo => outcome = Returned(StrV(Tok_5foo))
        /\ pvs_arg = Tok_foo5 => outcome = Returned(StrV(Tok_foo5))
        /\ pvs_arg = Tok_5plus2 => outcome = Returned(IntV(7))
        /\ pvs_arg = Tok_1div0 => outcome = Raised("ZeroDivisionError")
        /\ pvs_arg = Tok_5plusStr => outcome = Raised("TypeError")

C5_Witness ==
    /\ pc = "pvs_done"
    /\ arg_mode = "auto"
    /\ pvs_arg = Tok_foo5
    /\ outcome = Returned(StrV(Tok_foo5))

\* C6: in eval mode the token is never returned as a string: an unparsable
\* token raises SyntaxError, a parsable one with an unresolved free name
\* raises UnimportableNameError, and only a parsable, resolvable token
\* yields a value.
C6_EvalNeverFallsBack ==
    (pc = "pvs_done" /\ arg_mode = "eval") =>
        /\ ~parsable_as_expression(PvsBlock) => outcome = Raised("SyntaxError")
        /\ (parsable_as_expression(PvsBlock) /\ PvsUnresolved) =>
              outcome = Raised("UnimportableNameError")
        /\ outcome.kind = "return" =>
              /\ parsable_as_expression(PvsBlock)
              /\ ~PvsUnresolved
              /\ outcome.value = eval_block(PvsBlock)
        /\ outcome # Returned(StrV(pvs_arg))

C6_Witness ==
    /\ pc = "pvs_done"
    /\ arg_mode = "eval"
    /\ pvs_arg = Tok_foo5
    /\ outcome = Raised("UnimportableNameError")

----------------------------------------------------------------------------
(* The mode resolvers.                                                     *)

ArgAliases_eval ==
    {<<"e", "v", "a", "l">>,
     <<"e", "v", "a", "l", "u", "a", "t", "e">>,
     <<"e", "x", "p", "r", "s">>,
     <<"e", "x", "p", "r">>,
     <<"e", "x", "p", "r", "e", "s", "s", "i", "o", "n", "s">>,
     <<"e", "x", "p", "r", "e", "s", "s", "i", "o", "n">>,
     <<"e">>}
ArgAliases_string ==
    {<<"s", "t", "r", "i", "n", "g", "s">>,
     <<"s", "t", "r", "i", "n", "g">>,
     <<"s", "t", "r">>,
     <<"s", "t", "r", "s">>,
     <<"l", "i", "t", "e", "r", "a", "l">>,
     <<"l", "i", "t", "e", "r", "a", "l", "s">>,
     <<"s">>}
ArgAliases_auto ==
    {<<"a", "u", "t", "o">>,
     <<"a", "u", "t", "o", "m", "a", "t", "i", "c">>,
     <<"a">>}
Str_error == <<"e", "r", "r", "o", "r">>

OutAliases_silent ==
    {<<"n", "o", "n", "e">>,
     <<"n", "o">>,
     <<"n">>,
     <<"s", "i", "l", "e", "n", "t">>}
OutAliases_interactive ==
    {<<"i", "n", "t", "e", "r", "a", "c", "t", "i", "v", "e">>,
     <<"i">>}
OutAliases_str ==
    {<<"p", "r", "i", "n", "t">>,
     <<"p">>,
     <<"s", "t", "r", "i", "n", "g">>,
     <<"s", "t", "r">>}
OutAliases_repr ==
    {<<"r", "e", "p", "r">>,
     <<"r">>}
OutAliases_pprint ==
    {<<"p", "p", "r", "i", "n", "t">>,
     <<"p", "p">>}
OutAliases_repr_if_not_none ==
    {<<"r", "e", "p", "r", "i", "f", "n", "o", "t", "n", "o", "n", "e">>,
     <<"r", "e", "p", "r", "u", "n", "l", "e", "s", "s", "n", "o", "n", "e">>,
     <<"r", "n">>}
OutAliases_pprint_if_not_none ==
    {<<"p", "p", "r", "i", "n", "t", "i", "f", "n", "o", "t", "n", "o", "n", "e">>,
     <<"p", "p", "r", "i", "n", "t", "u", "n", "l", "e", "s", "s", "n", "o", "n", "e">>,
     <<"p", "p", "n">>}
OutAliases_exit ==
    {<<"s", "y", "s", "t", "e", "m", "e", "x", "i", "t">>,
     <<"e", "x", "i", "t">>,
     <<"r", "a", "i", "s", "e">>}


\* the default mode stands in for None (lines 1125-1126, 1148-1149)
WithDefault(arg, default) == IF arg = ModeNone THEN default ELSE arg

\* the normalisation of line 1127: str(arg).strip().lower()
ArgModeKey(arg) == lower(strip(arg))

\* the normalisation of line 1150: ...strip().lower().replace("-", "").replace("_", "")
OutputModeKey(arg) == replace(replace(lower(strip(arg)), "-", <<>>), "_", <<>>)

\* _interpret_arg_mode: the canonical mode, or "ValueError"
interpret_arg_mode(arg, default) ==
    LET rarg == ArgModeKey(WithDefault(arg, default))
    IN  IF rarg \in ArgAliases_eval THEN "eval"
        ELSE IF rarg \in ArgAliases_string THEN "string"
        ELSE IF rarg \in ArgAliases_auto THEN "auto"
        ELSE IF rarg = Str_error THEN "error"
        ELSE "ValueError"

\* _interpret_output_mode: the canonical mode, or "ValueError"
interpret_output_mode(arg, default) ==
    LET rarg == OutputModeKey(WithDefault(arg, default))
    IN  IF rarg \in OutAliases_silent THEN "silent"
        ELSE IF rarg \in OutAliases_interactive THEN "interactive"
        ELSE IF rarg \in OutAliases_str THEN "str"
        ELSE IF rarg \in OutAliases_repr THEN "repr"
        ELSE IF rarg \in OutAliases_pprint THEN "pprint"
        ELSE IF rarg \in OutAliases_repr_if_not_none THEN "repr-if-not-none"
        ELSE IF rarg \in OutAliases_pprint_if_not_none THEN "pprint-if-not-none"
        ELSE IF rarg \in OutAliases_exit THEN "exit"
        ELSE "ValueError"

Str_auto        == <<"a", "u", "t", "o">>
Str_interactive == <<"i", "n", "t", "e", "r", "a", "c", "t", "i", "v", "e">>
Str_Str         == <<"S", "t", "r">>
Str_Repr_If_Not_None == <<"R", "e", "p", "r", "_", "I", "f", "_", "N", "o", "t", "_", "N", "o", "n", "e">>
Str_reprifnotnone    == <<"r", "e", "p", "r", "i", "f", "n", "o", "t", "n", "o", "n", "e">>
Str_repr_if_not_none == <<"r", "e", "p", "r", "-", "i", "f", "-", "n", "o", "t", "-", "n", "o", "n", "e">>
Str_bogus       == <<"b", "o", "g", "u", "s">>

\* The mode strings the resolvers are tried on: every alias of both tables,
\* the spellings of the doctests, and a string that is no mode.
ModeInputs ==
    ArgAliases_eval \cup ArgAliases_string \cup ArgAliases_auto \cup {Str_error}
    \cup OutAliases_silent \cup OutAliases_interactive \cup OutAliases_str
    \cup OutAliases_repr \cup OutAliases_pprint \cup OutAliases_repr_if_not_none
    \cup OutAliases_pprint_if_not_none \cup OutAliases_exit
    \cup {Str_Str, Str_Repr_If_Not_None, Str_repr_if_not_none, Str_bogus}

MaxEdits == 1

SwapCase(c) ==
    IF IsUpper(c) THEN LowerChars[IndexOf(UpperChars, c)]
    ELSE IF IsLower(c) THEN UpperChars[IndexOf(LowerChars, c)]
    ELSE c

InsertAt(s, i, c) == SubSeq(s, 1, i) \o <<c>> \o SubSeq(s, i + 1, Len(s))
RemoveAt(s, i) == SubSeq(s, 1, i - 1) \o SubSeq(s, i + 1, Len(s))

\* s with the case of one letter changed
CaseEdits(s) == {[s EXCEPT ![i] = SwapCase(s[i])] : i \in 1..Len(s)}

\* s with one '-' or '_' inserted or removed
SeparatorEdits(s) ==
    {InsertAt(s, i, c) : i \in 0..Len(s), c \in {"-", "_"}}
    \cup {RemoveAt(s, i) : i \in {j \in 1..Len(s) : s[j] \in {"-", "_"}}}

\* up to n changes of letter case
RECURSIVE CaseRespellings(_, _)
CaseRespellings(s, n) ==
    IF n = 0 THEN {s}
    ELSE LET prev == CaseRespellings(s, n - 1)
         IN  prev \cup UNION {CaseEdits(x) : x \in prev}

\* up to n changes of letter case or separators
RECURSIVE Respellings(_, _)
Respellings(s, n) ==
    IF n = 0 THEN {s}
    ELSE LET prev == Respellings(s, n - 1)
         IN  prev \cup UNION {CaseEdits(x) \cup SeparatorEdits(x) : x \in prev}

\* whitespace put around each spelling
Surrounded(S) ==
    {pre \o x \o post : x \in S, pre \in {<<>>, <<" ">>}, post \in {<<>>, <<" ", "\n">>}}

InitMode ==
    /\ pc = "mode_call"
    /\ \/ /\ mode_arg \in ModeInputs
          /\ mode_alt \in Surrounded(Respellings(mode_arg, MaxEdits))
       \/ /\ mode_arg = Str_Repr_If_Not_None
          /\ mode_alt = Str_reprifnotnone
       \/ /\ mode_arg = ModeNone
          /\ mode_alt = ModeNone
    /\ mode_res = <<>>
    /\ arg_mode = "auto"
    /\ ns_globals = {}
    /\ outcome = NoOutcome
    /\ pvs_arg = <<>>
    /\ IdleBinder
    /\ result = NoneV /\ output_mode = <<>> /\ stdout = <<>>

\* _interpret_arg_mode called on mode_arg and on its respelling
InterpretArgMode ==
    /\ pc = "mode_call"
    /\ mode_res' = [fn  |-> "arg",
                    of  |-> interpret_arg_mode(mode_arg, Str_auto),
                    alt |-> interpret_arg_mode(mode_alt, Str_auto)]
    /\ pc' = "mode_done"
    /\ UNCHANGED <<main_vars, binder_input, binder_locals, ns_globals, stdin_pos, stdin_reads,
                   outcome, pvs_arg, mode_arg, mode_alt, result, output_mode, stdout>>

\* _interpret_output_mode called on mode_arg and on its respelling
InterpretOutputMode ==
    /\ pc = "mode_call"
    /\ mode_res' = [fn  |-> "output",
                    of  |-> interpret_output_mode(mode_arg, Str_interactive),
                    alt |-> interpret_output_mode(mode_alt, Str_interactive)]
    /\ pc' = "mode_done"
    /\ UNCHANGED <<main_vars, binder_input, binder_locals, ns_globals, stdin_pos, stdin_reads,
                   outcome, pvs_arg, mode_arg, mode_alt, result, output_mode, stdout>>

NextMode == InterpretArgMode \/ InterpretOutputMode

SpecMode == InitMode /\ [][NextMode]_vars

----------------------------------------------------------------------------
(* print_result.                                                           *)

\* an object; attr says whether reading __interactive_display__ finds the
\* attribute ("present"), finds none ("absent") or raises ("raises"), and
\* shows is what calling it returns
ObjV(attr, shows) == [t |-> "obj", attr |-> attr, shows |-> shows]

\* "%d" % n for any integer
FormatSigned(n) == IF n < 0 THEN <<"-">> \o FormatInt(-n) ELSE FormatInt(n)

Str_None   == <<"N", "o", "n", "e">>
Str_object == <<"<", "o", "b", "j", "e", "c", "t", ">">>

\* the decimal digits of rem/den (0 <= rem < den), at most k of them
RECURSIVE FormatFraction(_, _, _)
FormatFraction(rem, den, k) ==
    IF rem = 0 \/ k = 0 THEN <<>>
    ELSE FormatInt((10 * rem) \div den) \o FormatFraction((10 * rem) % den, den, k - 1)

\* repr of the float num/den (den > 0): 0.75, 2.0, -1.5
FormatFloat(num, den) ==
    LET a    == Abs(num)
        frac == FormatFraction(a % den, den, 12)
    IN  (IF num < 0 THEN <<"-">> ELSE <<>>) \o FormatInt(a \div den) \o <<".">>
        \o (IF frac = <<>> THEN <<"0">> ELSE frac)

\* repr(value), which is also pprint.pformat(value) for these values
py_repr(v) ==
    IF v.t = "int" THEN FormatSigned(v.n)
    ELSE IF v.t = "float" THEN FormatFloat(v.num, v.den)
    ELSE IF v.t = "str" THEN repr(v.s)
    ELSE IF v.t = "none" THEN Str_None
    ELSE Str_object

\* str(value)
py_str(v) == IF v.t = "str" THEN v.s ELSE py_repr(v)

\* lines 1180-1186: does result.__interactive_display__ evaluate without an exception
HasInteractiveDisplay(v) == v.t = "obj" /\ v.attr = "present"

Printed(lines) == [outcome |-> Returned(NoneV), out |-> lines]

\* print_result: how the call ends and the lines it prints
print_result(res, raw) ==
    LET mode == interpret_output_mode(raw, Str_interactive)
        has  == mode = "interactive" /\ HasInteractiveDisplay(res)
        res2 == IF has THEN res.shows ELSE res
        mode2 == IF mode # "interactive" THEN mode
                 ELSE IF has THEN "result-if-not-none"
                 ELSE "pprint-if-not-none"
    IN  IF mode = "ValueError" THEN [outcome |-> Raised("ValueError"), out |-> <<>>]
        ELSE IF mode = "silent" THEN Printed(<<>>)
        ELSE IF mode2 = "str" THEN Printed(<<py_str(res2)>>)
        ELSE IF mode2 = "repr" THEN Printed(<<py_repr(res2)>>)
        ELSE IF mode2 = "pprint" THEN Printed(<<py_repr(res2)>>)
        ELSE IF mode2 = "repr-if-not-none"
            THEN Printed(IF res2 # NoneV THEN <<py_repr(res2)>> ELSE <<>>)
        ELSE IF mode2 = "pprint-if-not-none"
            THEN Printed(IF res2 # NoneV THEN <<py_repr(res2)>> ELSE <<>>)
        ELSE IF mode2 = "exit"
            THEN [outcome |-> [kind |-> "raise", exc |-> "SystemExit", code |-> res2],
                  out |-> <<>>]
        ELSE [outcome |-> Raised("AssertionError"), out |-> <<>>]

Str_silent  == <<"s", "i", "l", "e", "n", "t">>
Str_str     == <<"s", "t", "r">>
Str_repr    == <<"r", "e", "p", "r">>
Str_pprint  == <<"p", "p", "r", "i", "n", "t">>
Str_pprint_if_not_none == <<"p", "p", "r", "i", "n", "t", "-", "i", "f", "-", "n", "o", "t", "-", "n", "o", "n", "e">>
Str_exit    == <<"e", "x", "i", "t">>
Str_a       == <<"a">>

PrintModes ==
    {Str_silent, Str_interactive, Str_str, Str_repr, Str_pprint, Str_repr_if_not_none,
     Str_pprint_if_not_none, Str_exit, Str_Repr_If_Not_None, Str_bogus, ModeNone}

PrintValues ==
    {NoneV, IntV(0), IntV(3), StrV(Str_a), StrV(Stdin_quote),
     ObjV("absent", NoneV), ObjV("raises", NoneV),
     ObjV("present", NoneV), ObjV("present", StrV(Str_a)), ObjV("present", IntV(3))}

InitPrint ==
    /\ pc = "print_call"
    /\ result \in PrintValues
    /\ output_mode \in PrintModes
    /\ stdout = <<>>
    /\ outcome = NoOutcome
    /\ arg_mode = "auto"
    /\ ns_globals = {}
    /\ pvs_arg = <<>>
    /\ mode_arg = <<>> /\ mode_alt = <<>> /\ mode_res = <<>>
    /\ IdleBinder

\* a call of print_result(result, output_mode)
PrintResult ==
    /\ pc = "print_call"
    /\ outcome' = print_result(result, output_mode).outcome
    /\ stdout' = stdout \o print_result(result, output_mode).out
    /\ pc' = "print_done"
    /\ UNCHANGED <<main_vars, binder_input, binder_locals, ns_globals, stdin_pos, stdin_reads,
                   pvs_arg, mode_arg, mode_alt, mode_res, result, output_mode>>

NextPrint == PrintResult

SpecPrint == InitPrint /\ [][NextPrint]_vars

\* C10: in interactive mode, a value that exposes __interactive_display__ has
\* it called and its outcome printed unless that is None; a value that does
\* not is printed exactly as in pprint-if-not-none mode.
C10_InteractiveDisplay ==
    (/\ pc = "print_done"
     /\ interpret_output_mode(output_mode, Str_interactive) = "interactive") =>
        /\ outcome = Returned(NoneV)
        /\ IF result.t = "obj" /\ result.attr = "present"
           THEN Len(stdout) = IF result.shows = NoneV THEN 0 ELSE 1
           ELSE stdout = print_result(result, Str_pprint_if_not_none).out

----------------------------------------------------------------------------
(* The dispatcher: _PyMain._run_action and the actions it runs.            *)

endswith(s, p) ==
    /\ Len(p) <= Len(s)
    /\ SubSeq(s, Len(s) - Len(p) + 1, Len(s)) = p

\* pyflyby._file.Filename accepts only names made of these characters
SafeFilenameChars ==
    Range(LowerChars) \cup Range(UpperChars) \cup Range(DigitChars)
    \cup {"_", "=", "+", "{", "}", "/", ".", ",", "~", "@", "-"}

\* Filename(arg) does not raise UnsafeFilenameError
SafeFilename(arg) ==
    /\ arg # <<>>
    /\ \A i \in 1..Len(arg) : arg[i] \in SafeFilenameChars
    /\ arg[1] # "~"

\* Filename(arg).ext == ".py"
HasPyExt(arg) ==
    /\ Len(arg) > 3
    /\ endswith(arg, <<".", "p", "y">>)
    /\ arg[Len(arg) - 3] # "/"

\* _seems_like_filename
seems_like_filename(arg, existing) ==
    IF ~SafeFilename(arg) THEN FALSE
    ELSE IF HasPyExt(arg) THEN TRUE
    ELSE IF startswith(arg, <<"/">>) \/ startswith(arg, <<".", "/">>)
            \/ startswith(arg, <<".", ".", "/">>) THEN TRUE
    ELSE arg \in existing

IsLetter(c) == IsLower(c) \/ IsUpper(c)

\* a flag test that stops every token
FlagLikeAlways(a) == TRUE

\* re.match("\s*$|-[a-zA-Z-]", a): blank, or a '-' followed by a letter or '-'
FlagLike(a) ==
    \/ \A i \in 1..Len(a) : a[i] \in SpaceChars
    \/ /\ Len(a) >= 2
       /\ a[1] = "-"
       /\ (IsLetter(a[2]) \/ a[2] = "-")

\* PythonBlock.parsable: the fragment has expressions only
parsable(block) == parsable_as_expression(block)

\* callable(value)
callable(v) == v.t = "func"

\* _get_argspec of the functions
get_argspec(fn) ==
    IF fn.name = Str_fn THEN ArgSpec(<<Str_x>>, <<>>, FALSE, FALSE)
    ELSE ArgSpec(<<Str_x>>, <<>>, TRUE, TRUE)

\* _PyMain._seems_like_module
seems_like_module(arg) ==
    /\ is_identifier(arg)
    /\ find_missing_imports(PythonBlock(arg), {}) # {}
    /\ arg \in KnownModules

\* the action names of _run_action's table
ActionNames ==
    [eval     |-> {<<"e", "v", "a", "l">>, <<"c">>, <<"e">>},
     execfile |-> {<<"f", "i", "l", "e">>,
                     <<"e", "x", "e", "c", "f", "i", "l", "e">>,
                     <<"e", "x", "e", "c", "f">>,
                     <<"r", "u", "n", "f", "i", "l", "e">>, <<"r", "u", "n">>,
                     <<"f">>},
     apply    |-> {<<"a", "p", "p", "l", "y">>, <<"c", "a", "l", "l">>},
     map      |-> {<<"m", "a", "p">>},
     xargs    |-> {<<"x", "a", "r", "g", "s">>},
     module   |-> {<<"m", "o", "d", "u", "l", "e">>, <<"m">>,
                     <<"r", "u", "n", "m", "o", "d", "u", "l", "e">>,
                     <<"r", "u", "n", "_", "m", "o", "d", "u", "l", "e">>,
                     <<"r", "u", "n", "-", "m", "o", "d", "u", "l", "e">>},
     ipython  |-> {<<"i", "p", "y", "t", "h", "o", "n">>, <<"i", "p">>,
                     <<"e", "x", "i", "s", "t", "i", "n", "g">>,
                     <<"n", "b", "c", "o", "n", "v", "e", "r", "t">>},
     nocmdarg |-> {<<"n", "o", "t", "e", "b", "o", "o", "k">>, <<"n", "b">>,
                     <<"k", "e", "r", "n", "e", "l">>,
                     <<"q", "t", "c", "o", "n", "s", "o", "l", "e">>, <<"q", "t">>,
                     <<"c", "o", "n", "s", "o", "l", "e">>,
                     <<"t", "i", "m", "e", "i", "t">>, <<"t", "i", "m", "e">>},
     version  |-> {<<"v", "e", "r", "s", "i", "o", "n">>},
     help     |-> {<<"h", "e", "l", "p">>, <<"h">>, <<"?">>},
     pinfo    |-> {<<"p", "i", "n", "f", "o">>},
     source   |-> {<<"s", "o", "u", "r", "c", "e">>,
                     <<"p", "i", "n", "f", "o", "2">>, <<"?", "?">>}]

Str_string == <<"s", "t", "r", "i", "n", "g">>
Str_eval   == <<"e", "v", "a", "l">>
Str_dash_c == <<"-", "c">>

\* None as the action of a one-character first token
NoName == <<"(None)">>

Act(name, cmd, cmdargs) == [name |-> name, cmd |-> cmd, args |-> cmdargs]
Stop(name, how) == [name |-> name, ending |-> how]

\* a table that only a first token with a leading '--', '-' or '%', or the
\* token '?', can enter
ActionPartsMarked(arg0) ==
    IF startswith(arg0, DashDash) THEN partition(SubSeq(arg0, 3, Len(arg0)), "=")
    ELSE IF startswith(arg0, Dash) THEN partition(SubSeq(arg0, 2, Len(arg0)), "=")
    ELSE IF startswith(arg0, <<"%">>) THEN <<SubSeq(arg0, 2, Len(arg0)), <<>>, <<>>>>
    ELSE IF arg0 = <<"?">> THEN <<arg0, <<>>, <<>>>>
    ELSE <<NoName, <<>>, <<>>>>

\* lines 1518-1527: <<action, equalsign, cmdarg>> of the first token
ActionParts(arg0) ==
    IF startswith(arg0, DashDash) THEN partition(SubSeq(arg0, 3, Len(arg0)), "=")
    ELSE IF startswith(arg0, Dash) THEN partition(SubSeq(arg0, 2, Len(arg0)), "=")
    ELSE IF startswith(arg0, <<"%">>) THEN <<SubSeq(arg0, 2, Len(arg0)), <<>>, <<>>>>
    ELSE IF Len(arg0) > 1 \/ arg0 = <<"?">> THEN <<arg0, <<>>, <<>>>>
    ELSE <<NoName, <<>>, <<>>>>

\* popcmdarg(), lines 1528-1535, then the action: the command is the text
\* after '=', else the next token
WithCmdArg(name, parts, rest) ==
    IF parts[2] # <<>> THEN Act(name, parts[3], rest)
    ELSE IF rest = <<>> THEN Stop("error", Uncaught("ValueError"))
    ELSE Act(name, Head(rest), Tail(rest))

\* args.insert(0, cmdarg) if there was an '=', lines 1630-1636
WithInserted(name, parts, rest) ==
    Act(name, <<>>, IF parts[2] # <<>> THEN <<parts[3]>> \o rest ELSE rest)

\* the heuristics taking the first token for what it is tried as last
HeuristicActionReversed(arg0, rest, mode, existing) ==
    IF parsable(PythonBlock(arg0)) /\ ~seems_like_module(arg0) /\ ~seems_like_filename(arg0, existing)
        THEN Act("heuristic_eval", arg0, rest)
    ELSE IF seems_like_module(arg0) THEN Act("heuristic_run_module", arg0, rest)
    ELSE IF /\ rest # <<>> /\ mode # Str_string
            /\ \A i \in 1..Len(rest) : ~FlagLike(rest[i])
            /\ parsable(PythonBlock(join(<<" ">>, <<arg0>> \o rest)))
        THEN Act("eval_joined", join(<<" ">>, <<arg0>> \o rest), <<>>)
    ELSE IF seems_like_filename(arg0, existing) THEN Act("execfile", arg0, rest)
    ELSE Stop("syntax", SystemExit(1))

\* lines 1670-1699 and 1314: the action the heuristics choose
HeuristicAction(arg0, rest, mode, existing) ==
    IF seems_like_filename(arg0, existing) THEN Act("execfile", arg0, rest)
    ELSE IF /\ rest # <<>>
            /\ mode # Str_string
            /\ \A i \in 1..Len(rest) : ~FlagLike(rest[i])
            /\ parsable(PythonBlock(join(<<" ">>, <<arg0>> \o rest)))
        THEN Act("eval_joined", join(<<" ">>, <<arg0>> \o rest), <<>>)
    ELSE IF ~parsable(PythonBlock(arg0)) THEN Stop("syntax", SystemExit(1))
    ELSE IF seems_like_module(arg0) THEN Act("heuristic_run_module", arg0, rest)
    ELSE Act("heuristic_eval", arg0, rest)

\* lines 1495-1699: the action _run_action takes on the tokens margs
RunActionChoice(margs, tty, mode, existing) ==
    IF margs = <<>> \/ Head(margs) = Dash THEN
        IF tty THEN Act("ipython", <<>>, <<>>)
        ELSE Act("exec_stdin", <<>>, IF margs = <<>> THEN <<<<>>>> ELSE margs)
    ELSE
        LET arg0  == Head(margs)
            rest  == Tail(margs)
            parts == ActionParts(arg0)
            name  == parts[1]
        IN  IF strip(arg0) = <<>> THEN Stop("error", Uncaught("ValueError"))
            ELSE IF name \in ActionNames.eval THEN WithCmdArg("eval", parts, rest)
            ELSE IF name \in ActionNames.execfile THEN WithCmdArg("execfile", parts, rest)
            ELSE IF name \in ActionNames.apply THEN WithCmdArg("apply", parts, rest)
            ELSE IF name \in ActionNames.map THEN WithCmdArg("map", parts, rest)
            ELSE IF name \in ActionNames.xargs THEN Stop("error", Uncaught("NotImplementedError"))
            ELSE IF name \in ActionNames.module THEN WithCmdArg("run_module", parts, rest)
            ELSE IF startswith(arg0, <<"-", "m">>)
                THEN Act("run_module", SubSeq(arg0, 3, Len(arg0)), rest)
            ELSE IF name \in ActionNames.ipython THEN Act("ipython", <<>>, rest)
            ELSE IF name \in ActionNames.nocmdarg THEN
                IF parts[2] # <<>> THEN Stop("error", Uncaught("ValueError"))
                ELSE Act("ipython", <<>>, rest)
            ELSE IF name \in ActionNames.version THEN WithInserted("print_version", parts, rest)
            ELSE IF name \in ActionNames.help THEN WithInserted("print_help", parts, rest)
            ELSE IF name \in ActionNames.pinfo THEN WithCmdArg("print_help", parts, rest)
            ELSE IF name \in ActionNames.source THEN WithCmdArg("print_source", parts, rest)
            ELSE IF startswith(arg0, Dash) THEN Stop("unknown_option", SystemExit(1))
            ELSE IF startswith(arg0, <<"?", "?">>)
                THEN Act("print_source", SubSeq(arg0, 3, Len(arg0)), <<>>)
            ELSE IF endswith(arg0, <<"?", "?">>)
                THEN Act("print_source", SubSeq(arg0, 1, Len(arg0) - 2), <<>>)
            ELSE IF startswith(arg0, <<"?">>)
                THEN Act("print_help", SubSeq(arg0, 2, Len(arg0)), <<>>)
            ELSE IF endswith(arg0, <<"?">>)
                THEN Act("print_help", SubSeq(arg0, 1, Len(arg0) - 1), <<>>)
            ELSE IF startswith(arg0, <<"%">>) THEN Act("ipython", <<>>, rest)
            ELSE HeuristicAction(arg0, rest, mode, existing)

\* LoggedList: the items and, for each, the item itself or the accessed mark
ACCESSED == [t |-> "accessed"]
LoggedList(items) == [logged |-> TRUE, items |-> items, unaccessed |-> items]

\* LoggedList.__getitem__(i) for each 1-based position i of S
Accessed(l, S) ==
    [l EXCEPT !.unaccessed =
        [i \in 1..Len(l.unaccessed) |-> IF i \in S THEN ACCESSED ELSE l.unaccessed[i]]]

\* LoggedList.unaccessed
unaccessed(l) == SelectSeq(l.unaccessed, LAMBDA x : x # ACCESSED)

\* lines 1043-1045: argv = LoggedList(args); argv[0]
SysArgvCtxEnter(argv) == Accessed(LoggedList(argv), {1})

\* " ".join(values): a str, or TypeError when a value is not a str
JoinsAsText(values) == \A i \in 1..Len(values) : values[i].t = "str"

\* lines 1051-1066: how the end of the context ends the program, if it does
SysArgvCtxExit(l) ==
    LET un    == unaccessed(l)
        nargs == Len(l.items) - 1
    IN  IF un = <<>> THEN Running
        ELSE IF nargs # 1 /\ ~JoinsAsText(un) THEN Uncaught("TypeError")
        ELSE SystemExit(1)

\* the arguments parsed one after the other, lines 1250-1251: the values and
\* the namespace, or the first exception
RECURSIVE ParseAll(_, _, _, _)
ParseAll(toks, globals, mode, acc) ==
    IF toks = <<>> THEN [kind |-> "return", values |-> acc, globals |-> globals]
    ELSE LET r == parse_value_or_string(Head(toks), globals, mode)
         IN  IF r.kind = "raise" THEN r
             ELSE ParseAll(Tail(toks), r.globals, mode, Append(acc, r.value))

Completed == [kind |-> "completed"]

binder_state == <<binder_input, binder_locals, pc, outcome, stdin_pos, stdin_reads>>
idle_calls == <<pvs_arg, mode_arg, mode_alt, mode_res, output_mode>>
surroundings == <<files, isatty, self_output_mode>>

\* how an exception raised by print_result ends the program
EndingOf(o) == IF o.exc = "SystemExit" THEN SystemExit(o.code) ELSE Uncaught(o.exc)

\* line 1566: the tokens of --map start with a bare '--'
MapLiteral(a) == a.args # <<>> /\ Head(a.args) = DashDash

\* the action a is taken on, or ends the program
RunActionWith(a) ==
    /\ action' = a
    /\ IF "ending" \in DOMAIN a
       THEN /\ main_pc' = "finished"
            /\ ending' = a.ending
            /\ log' = IF a.name = "error" THEN log
                      ELSE Append(log, ErrorLogged(a.name, Head(main_args)))
            /\ UNCHANGED <<main_args, self_arg_mode>>
       ELSE /\ main_pc' = a.name
            /\ main_args' = IF MapLiteral(a) /\ a.name = "map"
                            THEN Tail(a.args) ELSE a.args
            /\ self_arg_mode' = IF a.name = "eval_joined" THEN Str_error
                                ELSE self_arg_mode
            /\ UNCHANGED <<ending, log>>

\* _run_action up to the call of the action's method
RunAction ==
    /\ main_pc = "start"
    /\ RunActionWith(RunActionChoice(main_args, isatty, self_arg_mode, files))
    /\ UNCHANGED <<binder_state, idle_calls, surroundings, ns_globals, result, stdout,
                   sys_argv, orig_argv, calls, applications>>

\* a SysArgvCtx is entered with the parsed arguments r, unless parsing them
\* raised or the file is missing: lines 1252, 1261, 1272-1280
EnterCtxWith(r, argv0, exists) ==
    /\ ns_globals' = r.globals
    /\ IF r.kind = "raise" \/ ~exists
       THEN /\ ending' = Uncaught(IF r.kind = "raise" THEN r.exc ELSE "Exception")
            /\ main_pc' = "finished"
            /\ UNCHANGED <<sys_argv, orig_argv>>
       ELSE /\ sys_argv' = SysArgvCtxEnter(argv0 \o r.values)
            /\ orig_argv' = sys_argv
            /\ main_pc' = "user_code"
            /\ UNCHANGED ending
    /\ UNCHANGED <<binder_state, idle_calls, surroundings, result, stdout, main_args,
                   self_arg_mode, action, calls, applications, log>>

\* the arguments are parsed in the mode of --args, a string by default:
\* lines 1248-1251, 1257-1260, 1270-1271
EnterCtx(argv0, toks, exists) ==
    EnterCtxWith(ParseAll(toks, ns_globals, interpret_arg_mode(self_arg_mode, Str_string),
                          <<>>),
                 argv0, exists)

\* _PyMain.exec_stdin up to the code it runs
EnterExecStdin ==
    /\ main_pc = "exec_stdin"
    /\ EnterCtx(<<>>, action.args, TRUE)

\* _PyMain.eval up to the code it runs
EnterEval ==
    /\ main_pc \in {"eval", "eval_joined"}
    /\ EnterCtx(<<StrV(Str_dash_c)>>, action.args, TRUE)

\* _PyMain.execfile up to the code it runs
EnterExecfile ==
    /\ main_pc = "execfile"
    /\ EnterCtx(<<StrV(action.cmd)>>, action.args, action.cmd = Dash \/ action.cmd \in files)

\* what running the action's code gives: auto_eval of the text for eval, the
\* file's or stdin's own code otherwise (it returns None)
CodeResult ==
    IF action.name \in {"eval", "eval_joined"}
    THEN IF parsable(PythonBlock(action.cmd))
         THEN auto_eval(PythonBlock(action.cmd), ns_globals)
         ELSE Raise("SyntaxError", ns_globals)
    ELSE Return(NoneV, ns_globals)

\* the output mode of the action: exec_stdin is silent by default (line 1249)
RawOutputMode ==
    IF action.name = "exec_stdin" /\ self_output_mode = ModeNone THEN Str_silent
    ELSE self_output_mode

\* the code read the arguments at the positions S of sys.argv and returned r;
\* pr is how printing its value went
UserCodeReturned(r, pr) ==
    /\ r.kind = "return"
    /\ \E S \in SUBSET (2..Len(sys_argv.items)) :
          sys_argv' = Accessed(sys_argv, S)
    /\ result' = r.value
    /\ ns_globals' = r.globals
    /\ stdout' = stdout \o pr.out
    /\ IF pr.outcome.kind = "raise"
       THEN main_pc' = "ctx_unwind" /\ ending' = EndingOf(pr.outcome)
       ELSE main_pc' = "ctx_exit" /\ UNCHANGED ending

\* how printing the value of the outcome r goes
PrintOf(r, raw) ==
    IF r.kind = "return" THEN print_result(r.value, raw) ELSE Printed(<<>>)

UserCodePrinted(r) == UserCodeReturned(r, PrintOf(r, RawOutputMode))

\* the code runs inside the context and returns; its result is printed:
\* lines 1253-1254, 1262-1264, 1281-1282
UserCodeReturns ==
    /\ main_pc = "user_code"
    /\ UserCodePrinted(CodeResult)
    /\ UNCHANGED <<binder_state, idle_calls, surroundings, main_args, self_arg_mode,
                   action, orig_argv, calls, applications, log>>

\* the code read the arguments at the positions S and raised
UserCodeRaised(r) ==
    /\ \/ r.kind = "raise"
       \/ action.name \in {"execfile", "exec_stdin"}
    /\ \E S \in SUBSET (2..Len(sys_argv.items)) :
          sys_argv' = Accessed(sys_argv, S)
    /\ ending' = Uncaught(IF r.kind = "raise" THEN r.exc ELSE "Exception")
    /\ ns_globals' = r.globals
    /\ main_pc' = "ctx_unwind"

\* the code raises: the exception of the evaluation, or one of the file's own
UserCodeRaises ==
    /\ main_pc = "user_code"
    /\ UserCodeRaised(CodeResult)
    /\ UNCHANGED <<binder_state, idle_calls, surroundings, result, stdout, main_args,
                   self_arg_mode, action, orig_argv, calls, applications, log>>

\* the context ends in e
CtxExited(e) ==
    /\ ending' = IF e = Running THEN Completed ELSE e
    /\ log' = IF e = SystemExit(1)
              THEN Append(log, ErrorLogged("not used", unaccessed(sys_argv)))
              ELSE log

\* lines 1051-1068: the context ends after its body returned
CtxExit ==
    /\ main_pc = "ctx_exit"
    /\ CtxExited(SysArgvCtxExit(sys_argv))
    /\ sys_argv' = orig_argv
    /\ main_pc' = "finished"
    /\ UNCHANGED <<binder_state, idle_calls, surroundings, ns_globals, result, stdout,
                   main_args, self_arg_mode, action, orig_argv, calls, applications>>

\* lines 1067-1068: the context ends by an exception or SystemExit of its body
CtxUnwind ==
    /\ \/ main_pc = "ctx_unwind"
       \/ main_pc = "heuristic_apply" /\ pc \in {"exited", "propagated"}
    /\ sys_argv' = orig_argv
    /\ main_pc' = "finished"
    /\ UNCHANGED <<binder_state, idle_calls, surroundings, ns_globals, result, stdout,
                   main_args, self_arg_mode, action, orig_argv, calls, applications,
                   ending, log>>

\* the binder is entered on the tokens toks for the function fn: lines 588-590
StartBinder(fn, toks, mode) ==
    /\ pc' = "scan"
    /\ argspec' = get_argspec(fn)
    /\ commandline_args' = toks
    /\ arg_mode' = mode
    /\ args' = toks
    /\ got_pos_args' = <<>> /\ got_pos_src' = <<>>
    /\ got_keyword_args' = EmptyDict
    /\ idx' = 0
    /\ parsed_args' = <<>> /\ parsed_kwargs' = EmptyDict
    /\ outcome' = NoOutcome
    /\ UNCHANGED <<stdin_data, stdin_pos, stdin_reads>>

\* lines 769-774: the evaluated name must be callable
CallableOr(r) ==
    IF r.kind = "raise" THEN Raise("ValueError", r.globals)
    ELSE IF ~callable(r.value) THEN Raise("NotAFunctionError", r.globals)
    ELSE r

\* lines 759-768: the name is stripped and evaluated
EvaluatedName(f, globals) ==
    IF f = <<>> THEN Raise("ValueError", globals)
    ELSE IF parsable_as_expression(PythonBlock(f))
        THEN CallableOr(auto_eval(PythonBlock(f), globals))
    ELSE Raise("ValueError", globals)

\* _interpret_function_name on a string
InterpretFunctionName(fname, globals) == EvaluatedName(strip(fname), globals)

\* the binder is entered for the function r, unless r is an exception
StartApplyWith(r, toks) ==
    /\ ns_globals' = r.globals
    /\ IF r.kind = "raise"
       THEN /\ ending' = Uncaught(r.exc)
            /\ main_pc' = "finished"
            /\ UNCHANGED binder_state
       ELSE /\ StartBinder(r.value, toks, interpret_arg_mode(self_arg_mode, Str_auto))
            /\ main_pc' = "in_apply"
            /\ UNCHANGED ending

\* _PyMain.apply(fname, toks) up to the binder: lines 1285-1288 and 860-867
StartApply(fname, toks) ==
    /\ applications' = Append(applications, [function |-> fname, args |-> toks])
    /\ StartApplyWith(InterpretFunctionName(fname, ns_globals), toks)

\* line 1555
DoApply ==
    /\ main_pc = "apply"
    /\ StartApply(action.cmd, action.args)
    /\ UNCHANGED <<idle_calls, surroundings, result, stdout, main_args, self_arg_mode,
                   action, sys_argv, orig_argv, calls, log>>

\* an iteration that hands the function every token still to be mapped
MapArguments(literal, toks) == toks

\* lines 1566-1571: the argument list of the application for the next token
MapArgumentsOf(literal, toks) ==
    IF literal THEN <<DashDash, Head(toks)>> ELSE <<Head(toks)>>

\* lines 1566-1571: the next iteration of the loop of --map, or its end
MapNext ==
    /\ main_pc = "map"
    /\ IF main_args = <<>>
       THEN /\ main_pc' = "finished"
            /\ ending' = Completed
            /\ UNCHANGED <<binder_state, ns_globals, applications, main_args>>
       ELSE /\ StartApply(action.cmd, MapArgumentsOf(MapLiteral(action), main_args))
            /\ main_args' = Tail(main_args)
    /\ UNCHANGED <<idle_calls, surroundings, result, stdout, self_arg_mode, action,
                   sys_argv, orig_argv, calls, log>>

\* the result of an application is printed as pr says
ApplyPrinted(pr) ==
    /\ stdout' = stdout \o pr.out
    /\ IF pr.outcome.kind = "raise"
       THEN main_pc' = "finished" /\ ending' = EndingOf(pr.outcome)
       ELSE IF action.name = "map"
       THEN main_pc' = "map" /\ UNCHANGED ending
       ELSE main_pc' = "finished" /\ ending' = Completed

\* line 1289: the result of the application is printed
ApplyPrint ==
    /\ main_pc = "in_apply" /\ pc = "applied"
    /\ ApplyPrinted(print_result(result, self_output_mode))
    /\ pc' = "idle"
    /\ UNCHANGED <<binder_input, binder_locals, outcome, stdin_pos, stdin_reads,
                   idle_calls, surroundings, ns_globals, result, main_args,
                   self_arg_mode, action, sys_argv, orig_argv, calls, applications, log>>

\* lines 1327-1343: the first token evaluated to r inside the context argv
HeuristicEvaluated(r, argv, pr) ==
    /\ ns_globals' = r.globals
    /\ orig_argv' = sys_argv
    /\ IF r.kind = "raise" THEN
          /\ ending' = Uncaught(r.exc)
          /\ main_pc' = "ctx_unwind"
          /\ sys_argv' = argv
          /\ UNCHANGED <<binder_state, result, stdout, log>>
       ELSE IF callable(r.value) THEN
          /\ StartBinder(r.value, action.args,
                         interpret_arg_mode(self_arg_mode, Str_auto))
          /\ main_pc' = "heuristic_apply"
          /\ sys_argv' = argv
          /\ UNCHANGED <<result, stdout, ending, log>>
       ELSE
          /\ result' = r.value
          /\ stdout' = stdout \o pr.out
          /\ log' = IF unaccessed(argv) # <<>> /\ pr.outcome.kind # "raise"
                    THEN Append(log, ErrorLogged("is not callable", unaccessed(argv)))
                    ELSE log
          /\ IF pr.outcome.kind = "raise"
             THEN /\ main_pc' = "ctx_unwind"
                  /\ ending' = EndingOf(pr.outcome)
                  /\ sys_argv' = argv
             ELSE /\ main_pc' = "ctx_exit"
                  /\ sys_argv' = Accessed(argv, 1..Len(argv.items))
                  /\ UNCHANGED ending
          /\ UNCHANGED binder_state

HeuristicEvaluatedIn(r, argv) ==
    HeuristicEvaluated(r, argv, PrintOf(r, self_output_mode))

\* lines 1320-1322: the context of heuristic_cmd holds the unparsed tokens
HeuristicArgv(toks) ==
    SysArgvCtxEnter(<<StrV(Str_dash_c)>> \o [i \in 1..Len(toks) |-> StrV(toks[i])])

\* heuristic_cmd, lines 1320-1343, up to the call of auto_apply: the first
\* token is evaluated inside a SysArgvCtx of the unparsed tokens, and the
\* evaluation reads the arguments at the positions S
HeuristicEval ==
    /\ main_pc = "heuristic_eval"
    /\ \E S \in SUBSET (2..(Len(action.args) + 1)) :
          HeuristicEvaluatedIn(auto_eval(PythonBlock(action.cmd), ns_globals),
                               Accessed(HeuristicArgv(action.args), S))
    /\ UNCHANGED <<idle_calls, surroundings, main_args, self_arg_mode, action, calls,
                   applications>>

\* the result of the implied application is printed as pr says
HeuristicPrinted(pr) ==
    /\ stdout' = stdout \o pr.out
    /\ IF pr.outcome.kind = "raise"
       THEN /\ main_pc' = "ctx_unwind"
            /\ ending' = EndingOf(pr.outcome)
            /\ UNCHANGED sys_argv
       ELSE /\ main_pc' = "ctx_exit"
            /\ sys_argv' = Accessed(sys_argv, 1..Len(sys_argv.items))
            /\ UNCHANGED ending

\* lines 1331-1332: the result of the implied application is printed and
\* every argument counts as read
HeuristicApplied ==
    /\ main_pc = "heuristic_apply" /\ pc = "applied"
    /\ HeuristicPrinted(print_result(result, self_output_mode))
    /\ pc' = "idle"
    /\ UNCHANGED <<binder_input, binder_locals, outcome, stdin_pos, stdin_reads,
                   idle_calls, surroundings, ns_globals, result, main_args,
                   self_arg_mode, action, orig_argv, calls, applications, log>>

\* lines 1370-1382: a single version, help or source token after a module
ModuleIntercepted(toks) ==
    /\ Len(toks) = 1
    /\ toks[1] \in {<<"-", "-", "v", "e", "r", "s", "i", "o", "n">>,
                     <<"-", "v", "e", "r", "s", "i", "o", "n">>,
                     <<"-", "-", "h", "e", "l", "p">>, <<"-", "h", "e", "l", "p">>,
                     <<"-", "-", "h">>, <<"-", "h">>,
                     <<"-", "-", "?">>, <<"-", "?">>, <<"?">>,
                     <<"-", "-", "s", "o", "u", "r", "c", "e">>,
                     <<"-", "s", "o", "u", "r", "c", "e">>,
                     <<"-", "-", "?", "?">>, <<"-", "?", "?">>, <<"?", "?">>}

\* the actions carried out by collaborators: IPython, runpy, the help and
\* version printers.  run_module takes string arguments only (lines 1346-1349).
RunOther ==
    /\ main_pc \in {"ipython", "run_module", "heuristic_run_module", "print_version",
                    "print_help", "print_source"}
    /\ ending' = IF /\ main_pc \in {"run_module", "heuristic_run_module"}
                    /\ ~(main_pc = "heuristic_run_module" /\ ModuleIntercepted(action.args))
                    /\ interpret_arg_mode(self_arg_mode, Str_string) # "string"
                 THEN Uncaught("NotImplementedError")
                 ELSE Completed
    /\ main_pc' = "finished"
    /\ UNCHANGED <<binder_state, idle_calls, surroundings, ns_globals, result, stdout,
                   main_args, self_arg_mode, action, sys_argv, orig_argv, calls,
                   applications, log>>

----------------------------------------------------------------------------
\* The program: _PyMain on an argument vector, after the global options

MaxArgs == 2

Tok_xpy   == <<"x", ".", "p", "y">>
Tok_plus  == <<"+">>
Tok_slash == <<"/">>
Opt_eval  == <<"-", "-", "e", "v", "a", "l">>
Opt_file  == <<"-", "-", "f", "i", "l", "e">>
Opt_apply == <<"-", "-", "a", "p", "p", "l", "y">>
Opt_map   == <<"-", "-", "m", "a", "p">>

\* the command lines tried: the tokens that select the action, the tokens
\* that may follow, the files that may exist and whether stdin may be a tty
MainScenarios == {
    [heads  |-> {<<>>, <<Dash>>, <<Tok_bad>>, <<Tok_q, Tok_3>>},
     tokens |-> {},
     files  |-> {{}},
     tty    |-> BOOLEAN],
    [heads  |-> {<<Dash>>},
     tokens |-> {Tok_3},
     files  |-> {{}},
     tty    |-> {FALSE}],
    [heads  |-> {<<Opt_eval, Tok_3>>, <<Opt_eval, Tok_5foo>>, <<Opt_eval>>},
     tokens |-> {Tok_3, Tok_4, Str_fn},
     files  |-> {{}},
     tty    |-> {FALSE}],
    [heads  |-> {<<Opt_file, Tok_xpy>>},
     tokens |-> {Tok_3, Tok_4},
     files  |-> {{}, {Tok_xpy}},
     tty    |-> {FALSE}],
    [heads  |-> {<<Opt_apply, Str_fn>>, <<Opt_apply, Tok_3>>, <<Opt_apply, Tok_5foo>>},
     tokens |-> {Tok_3, Tok_x1, Tok_help, Tok_bad},
     files  |-> {{}},
     tty    |-> {FALSE}],
    [heads  |-> {<<Opt_map, Str_fn>>, <<Opt_map, Str_kw>>, <<Opt_map, Str_fn, DashDash>>},
     tokens |-> {DashDash, Tok_3, Tok_x1, Tok_help},
     files  |-> {{}},
     tty    |-> {FALSE}],
    [heads  |-> {<<Str_kw>>},
     tokens |-> {Tok_4, Tok_z1, Dash, Tok_q, Tok_qq},
     files  |-> {{}},
     tty    |-> {FALSE}],
    [heads  |-> {<<Tok_xpy>>, <<Tok_3>>, <<Str_fn>>, <<Tok_os>>, <<Tok_5foo>>},
     tokens |-> {Tok_plus, Tok_slash, Tok_4, Tok_x},
     files  |-> {{}, {Tok_3}, {Tok_xpy}},
     tty    |-> {FALSE}],
    [heads  |-> {<<Str_x>>},
     tokens |-> {Tok_plus, Tok_4},
     files  |-> {{}},
     tty    |-> {FALSE}],
    [heads  |-> {<<Str_eval>>, <<<<"e">>>>, <<<<"n", "b">>>>, <<<<"r", "u", "n">>>>},
     tokens |-> {Tok_3},
     files  |-> {{}},
     tty    |-> {FALSE}] }

\* --args and --output as _parse_global_opts leaves them: None when not given
MainArgModes == {ModeNone, Str_string, Str_eval, Str_auto}
MainOutputModes == {ModeNone, Str_exit}

\* _PyMain.run: the state when _run_action is entered, lines 1487-1493
InitMain ==
    /\ main_pc = "start"
    /\ \E sc \in MainScenarios :
          /\ \E h \in sc.heads : \E r \in BoundedSeqs(sc.tokens, MaxArgs) :
                main_args = h \o r
          /\ files \in sc.files
          /\ isatty \in sc.tty
    /\ self_arg_mode \in MainArgModes
    /\ self_output_mode \in MainOutputModes
    /\ action = NoAction
    /\ sys_argv = PlainArgv(<<Str_py>> \o main_args)
    /\ orig_argv = PlainArgv(<<>>)
    /\ calls = <<>> /\ applications = <<>> /\ log = <<>>
    /\ ending = Running
    /\ pc = "idle"
    /\ argspec = ArgSpec(<<>>, <<>>, FALSE, FALSE)
    /\ commandline_args = <<>>
    /\ arg_mode = "auto"
    /\ ns_globals = {}
    /\ stdin_data = Stdin_4 /\ stdin_pos = 0 /\ stdin_reads = 0
    /\ args = <<>> /\ got_pos_args = <<>> /\ got_pos_src = <<>>
    /\ got_keyword_args = EmptyDict /\ idx = 0
    /\ parsed_args = <<>> /\ parsed_kwargs = EmptyDict
    /\ outcome = NoOutcome
    /\ pvs_arg = <<>>
    /\ mode_arg = <<>> /\ mode_alt = <<>> /\ mode_res = <<>>
    /\ result = NoneV /\ output_mode = <<>> /\ stdout = <<>>

NextMain ==
    \/ RunAction
    \/ EnterExecStdin \/ EnterEval \/ EnterExecfile
    \/ UserCodeReturns \/ UserCodeRaises
    \/ CtxExit \/ CtxUnwind
    \/ DoApply \/ MapNext \/ ApplyPrint
    \/ HeuristicEval \/ HeuristicApplied
    \/ RunOther
    \/ NextApply

SpecMain == InitMain /\ [][NextMain]_vars

----------------------------------------------------------------------------
\* The heuristic classifier

\* the command line the program was started on: sys.argv without the program
\* name, as it was before any context replaced it
CommandLine ==
    Tail(IF sys_argv.logged THEN orig_argv.items ELSE sys_argv.items)

\* the first tokens of the command lines tried that reach the classifier
HeuristicFirstTokens == {Tok_xpy, Tok_3, Str_fn, Str_kw, Tok_os, Tok_5foo}

ReachesClassifier ==
    /\ main_pc # "start"
    /\ CommandLine # <<>>
    /\ Head(CommandLine) \in HeuristicFirstTokens

\* blank, or a '-' followed by a letter or '-'
BlankOrFlag(t) ==
    \/ \A i \in 1..Len(t) : t[i] = " "
    \/ /\ Len(t) >= 2 /\ t[1] = "-"
       /\ t[2] \in {"-"} \cup Range(LowerChars) \cup Range(UpperChars)

\* the calculator applies to the command line cl: further tokens, none blank
\* or flag-like, a mode not forced to string, and the joined text parses
CalculatorApplies(cl) ==
    /\ Len(cl) >= 2
    /\ self_arg_mode # Str_string
    /\ \A i \in 2..Len(cl) : ~BlankOrFlag(cl[i])
    /\ parsable(PythonBlock(join(<<" ">>, cl)))

\* the first candidate, in the order file, calculator, module, first token,
\* whose condition holds for the command line cl
FirstCandidate(cl) ==
    IF seems_like_filename(Head(cl), files) THEN "execfile"
    ELSE IF CalculatorApplies(cl) THEN "eval_joined"
    ELSE IF seems_like_module(Head(cl)) THEN "heuristic_run_module"
    ELSE IF parsable(PythonBlock(Head(cl))) THEN "heuristic_eval"
    ELSE "syntax"

\* C11: for a first token that reaches the heuristic classifier the action
\* chosen is the first, in the order execute-file, joined eval, module run,
\* evaluate-first-token, classification failure, whose condition holds.  So
\* the tokens 3 + 4 are executed as the file 3 when a file of that name
\* exists, and the tokens 3 / 4 are one joined eval when none does.
C11_HeuristicOrder ==
    ReachesClassifier =>
        /\ action.name = FirstCandidate(CommandLine)
        /\ (CommandLine = <<Tok_3, Tok_plus, Tok_4>> /\ files = {Tok_3}) =>
              action = Act("execfile", Tok_3, <<Tok_plus, Tok_4>>)
        /\ (CommandLine = <<Tok_3, Tok_slash, Tok_4>> /\ files = {}
                /\ self_arg_mode # Str_string) =>
              /\ action.name = "eval_joined"
              /\ calls = <<>> /\ applications = <<>> /\ pc = "idle"

\* the tokens 3 + 4 were classified while a file named 3 exists: the file is
\* executed although the joined tokens parse
C11_Witness ==
    /\ main_pc = "user_code"
    /\ CommandLine = <<Tok_3, Tok_plus, Tok_4>>
    /\ files = {Tok_3}
    /\ self_arg_mode = ModeNone
    /\ parsable(PythonBlock(join(<<" ">>, CommandLine)))
    /\ action.name = "execfile"

Str_0_75 == <<"0", ".", "7", "5">>

\* C12: when the first token is not filename-like, further tokens remain, the
\* mode is not forced to string, no further token is blank or flag-like and
\* the tokens joined with single spaces parse, the action is one eval of the
\* joined text with an empty residual argument vector, and no token is
\* applied or bound as a function or an argument.  The tokens 3 / 4 in auto
\* mode give 0.75.
C12_Calculator ==
    (/\ ReachesClassifier
     /\ ~seems_like_filename(Head(CommandLine), files)
     /\ CalculatorApplies(CommandLine)) =>
        /\ action = Act("eval_joined", join(<<" ">>, CommandLine), <<>>)
        /\ calls = <<>> /\ applications = <<>> /\ pc = "idle"
        /\ main_pc \in {"eval_joined", "user_code", "ctx_exit", "ctx_unwind", "finished"}
        /\ sys_argv.logged => sys_argv.items = <<StrV(Str_dash_c)>>
        /\ (/\ CommandLine = <<Tok_3, Tok_slash, Tok_4>>
            /\ main_pc = "finished"
            /\ self_output_mode = ModeNone) =>
              /\ result = FloatV(3, 4)
              /\ stdout = <<Str_0_75>>
              /\ ending = Completed

\* 3 / 4 was evaluated in auto mode and printed
C12_Witness ==
    /\ CommandLine = <<Tok_3, Tok_slash, Tok_4>>
    /\ self_arg_mode = Str_error
    /\ action.name = "eval_joined"
    /\ main_pc = "finished"
    /\ stdout = <<Str_0_75>>
    /\ ending = Completed

----------------------------------------------------------------------------
\* The first token is a value that is not callable

\* heuristic_cmd evaluated the first token to a value that is not callable,
\* printed it in the default output mode, and the program came to its end
NotCallableDone ==
    /\ action.name = "heuristic_eval"
    /\ main_pc = "finished"
    /\ self_output_mode = ModeNone
    /\ pc = "idle" /\ calls = <<>>
    /\ ending \notin {Uncaught(e) : e \in {"TypeError", "UnimportableNameError",
                                          "ZeroDivisionError", "SyntaxError"}}

\* trailing tokens were left unread and the error of lines 1338-1341 was logged
NotCallableReported == \E i \in 1..Len(log) : log[i].what = "is not callable"

\* C13: when the first token evaluates to a value that is not callable, the
\* value is printed; without trailing tokens the program completes normally;
\* with trailing tokens left unread the error is reported and the program
\* does not complete with a success status.
C13_NotCallableTrailingFatal ==
    NotCallableDone =>
        /\ stdout = <<py_repr(result)>>
        /\ action.args = <<>> => (ending = Completed /\ ~NotCallableReported)
        /\ NotCallableReported => ending # Completed

----------------------------------------------------------------------------
\* The argument vector of eval, execfile and exec_stdin

\* C15: when the code of an eval, execute-file or execute-stdin action has
\* finished normally, a residual token that was never read is reported by an
\* error naming the unread tokens and the program exits with status 1; when
\* every token was read nothing is reported.  Element 0 never counts as
\* unread and the previous argument vector is restored on every exit path.
C15_UnreadArgumentsReported ==
    /\ [](sys_argv.logged => sys_argv.unaccessed[1] = ACCESSED)
    /\ [](main_pc = "finished" => ~sys_argv.logged)
    /\ [][(/\ main_pc = "ctx_exit"
           /\ action.name \in {"eval", "eval_joined", "execfile", "exec_stdin"}) =>
             /\ sys_argv' = orig_argv
             /\ IF unaccessed(sys_argv) = <<>>
                THEN ending' = Completed /\ log' = log
                ELSE /\ ending' = SystemExit(1)
                     /\ log' = Append(log, ErrorLogged("not used", unaccessed(sys_argv)))
         ]_vars

----------------------------------------------------------------------------
\* --map

\* the tokens --map applies the function to, and whether they are literal
MappedTokens == IF MapLiteral(action) THEN Tail(action.args) ELSE action.args

\* the argument list the i-th application of --map is to receive
MappedArguments(i) ==
    IF MapLiteral(action) THEN <<DashDash, MappedTokens[i]>> ELSE <<MappedTokens[i]>>

\* C16: --map applies the function once per remaining token, in token order,
\* each application receiving that one token as its argument list; after a
\* leading '--' each token is applied as a literal string.  When the action
\* completes, the number of applications is the number of tokens, the '--'
\* not counted.
C16_MapAppliesEachToken ==
    action.name = "map" =>
        /\ Len(applications) <= Len(MappedTokens)
        /\ Len(calls) <= Len(applications)
        /\ \A i \in 1..Len(applications) :
              applications[i] = [function |-> action.cmd, args |-> MappedArguments(i)]
        /\ main_args = SubSeq(MappedTokens, Len(applications) + 1, Len(MappedTokens))
        /\ MapLiteral(action) =>
              \A i \in 1..Len(calls) :
                  calls[i].args = <<StrV(MappedTokens[i])>>
        /\ (main_pc = "finished" /\ ending = Completed) =>
              /\ Len(applications) = Len(MappedTokens)
              /\ Len(calls) = Len(MappedTokens)

\* --map fn -- 3 --x=1 completed: two applications, of the strings '3' and
\* '--x=1'
C16_Witness ==
    /\ action.name = "map"
    /\ action.cmd = Str_fn
    /\ action.args = <<DashDash, Tok_3, Tok_x1>>
    /\ main_pc = "finished" /\ ending = Completed
    /\ Len(applications) = 2
    /\ calls[1].args = <<StrV(Tok_3)>> /\ calls[2].args = <<StrV(Tok_x1)>>

----------------------------------------------------------------------------
\* The argument mode when --args is not given

\* the value of the token tok in auto mode
AutoValue(tok) == parse_value_or_string(tok, ns_globals, "auto").value

\* C17: without --args, the arguments after the code of --eval, --apply and
\* --map are interpreted in auto mode.
C17_DefaultArgModeIsAuto ==
    self_arg_mode = ModeNone =>
        /\ (action.name = "eval" /\ main_pc = "user_code") =>
              /\ Len(sys_argv.items) = Len(action.args) + 1
              /\ \A i \in 1..Len(action.args) :
                    sys_argv.items[i + 1] = AutoValue(action.args[i])
        /\ (action.name \in {"apply", "map"} /\ main_pc = "in_apply") =>
              arg_mode = "auto"

----------------------------------------------------------------------------
\* The value of an option token

\* the scanner is about to take an option token
ScanningOption == pc = "scan" /\ args # <<>> /\ IsOptionToken(Head(args))

\* the scanner went on after the option token and recorded the value v for it
OptionRecorded(v) ==
    /\ pc' = "scan"
    /\ \E n \in DOMAIN got_keyword_args' : got_keyword_args'[n] = v

\* C22 as stated: an option token without '=value' takes the next token as its
\* value, and binding fails with a ParseError when there is no next token or
\* the next token starts with '--'; an option token written with '=' takes
\* the text after '=' as its value and never consumes the following token.
C22_EqualsNeverConsumesNext ==
    [][ScanningOption =>
          /\ (OptionEquals(Head(args)) # <<>> /\ pc' = "scan") =>
                /\ args' = Tail(args)
                /\ OptionRecorded(OptionValue(Head(args)))
          /\ (OptionEquals(Head(args)) = <<>> /\ pc' = "scan") =>
                /\ args' = Tail(Tail(args))
                /\ OptionRecorded(args[2])
          /\ (/\ OptionEquals(Head(args)) = <<>>
              /\ Len(args) < 2 \/ startswith(args[2], DashDash))
                => (pc' = "raised" /\ outcome'.exc \in
                       {"ParseError", "_ParseInterruptedWantHelp",
                        "_ParseInterruptedWantSource"})
      ]_vars

----------------------------------------------------------------------------
\* Every consumed value is parsed once

\* the option tokens a scan of toks that ends normally takes, with the name
\* each resolves to
RECURSIVE ScannedOptions(_, _)
ScannedOptions(spec, toks) ==
    IF toks = <<>> \/ Head(toks) = DashDash THEN <<>>
    ELSE IF IsOptionToken(Head(toks)) /\ ScanOptionResult(spec, toks).kind = "option"
        THEN <<ScanOptionResult(spec, toks).name>>
                 \o ScannedOptions(spec, ScanOptionResult(spec, toks).rest)
    ELSE ScannedOptions(spec, Tail(toks))

\* the declared parameters that got their default: no positional value and no
\* option names them
DefaultsUsed(names) ==
    Cardinality({i \in 1..Len(argspec.args) :
                    i > Len(got_pos_args) /\ argspec.args[i] \notin Range(names)})

\* the values the binder consumed, and the values of its result that came out
\* of the Value-or-String Parser
ConsumedCount(names) == Len(got_pos_args) + Len(names)
ParsedCount(names) ==
    Len(outcome.args) - DefaultsUsed(names) + Cardinality(DOMAIN outcome.kwargs)

\* C23 as stated: in every binding that returns normally, each positional
\* value and each option value the binder consumed went through the
\* Value-or-String Parser exactly once, so the parsed values of the result
\* are as many as the consumed values: none is skipped, none parsed twice.
C23_EveryConsumedValueParsedOnce ==
    pc = "done" =>
        ParsedCount(ScannedOptions(argspec, commandline_args))
            = ConsumedCount(ScannedOptions(argspec, commandline_args))

----------------------------------------------------------------------------
\* The failures of the binder

\* C24 as stated: every failure of the binder other than the help and source
\* interrupts is a ParseError, the failure to parse the value of a positional
\* argument or of a declared keyword argument included.
C24_BinderFailuresAreParseErrors ==
    pc = "raised" =>
        outcome.exc \in {"ParseError", "_ParseInterruptedWantHelp",
                         "_ParseInterruptedWantSource"}

----------------------------------------------------------------------------
\* How print_result ends

\* C25 as stated: for every value and every valid output mode, a call of
\* print_result ends by returning normally or by raising the exit signal with
\* the value, never with another error, and the call that exits has printed
\* nothing.
C25_PrintResultEndsCleanly ==
    (/\ pc = "print_done"
     /\ interpret_output_mode(output_mode, Str_interactive) # "ValueError") =>
        /\ \/ outcome = Returned(NoneV)
           \/ outcome = [kind |-> "raise", exc |-> "SystemExit", code |-> result]
        /\ outcome.kind = "raise" => stdout = <<>>

----------------------------------------------------------------------------
\* The joined evaluation of the heuristic action

\* C26 as stated: the tokens are joined and evaluated as one expression only
\* after it is established that auto-import resolves every free name of the
\* joined text; otherwise the classifier falls back to the first token alone.
C26_JoinedOnlyWhenImportable ==
    action.name = "eval_joined" =>
        auto_import(PythonBlock(action.cmd), {})

----------------------------------------------------------------------------
\* First tokens without a marker

\* a first token that is not blank and has no leading '--', '-' or '%' and no
\* leading or trailing '?' or '??'
Unmarked(t) ==
    /\ strip(t) # <<>>
    /\ t[1] \notin {"-", "%", "?"}
    /\ t[Len(t)] # "?"

\* the command line was dispatched and its first token has no marker
UnmarkedDispatched ==
    /\ main_pc # "start"
    /\ CommandLine # <<>>
    /\ Unmarked(Head(CommandLine))

\* the action is the one the Action Classifier chooses for the command line,
\* taken on the first token or on the joined tokens
ClassifiedFirst ==
    /\ action.name = FirstCandidate(CommandLine)
    /\ action.name # "syntax" =>
          action.cmd \in {Head(CommandLine), join(<<" ">>, CommandLine)}

\* every name of the table of named actions
AllActionNames == UNION {ActionNames[k] : k \in DOMAIN ActionNames}

\* the first token is longer than one character and is spelled like a name of
\* the table
SpelledLikeAction(t) == Len(t) > 1 /\ t \in AllActionNames

\* the action is a named action of the table, taken on the tokens after the
\* first one
NamedActionTaken ==
    /\ action.name \notin {"eval_joined", "heuristic_run_module", "heuristic_eval",
                           "syntax", "unknown_option"}
    /\ "cmd" \in DOMAIN action => action.cmd # Head(CommandLine)

\* C27 as stated: a first token with no leading '--', '-' or '%' and no
\* leading or trailing '?' or '??' always goes to the Action Classifier; it
\* never selects a named action such as eval, run, file, call, map, help,
\* version or time.
C27_UnmarkedAlwaysClassified ==
    UnmarkedDispatched => ClassifiedFirst

\* C27 (amended): a non-blank first token with no leading '--', '-' or '%' and
\* no leading or trailing '?' or '??' goes to the Action Classifier, unless it
\* is longer than one character and spelled exactly like a name of the table
\* of named actions: then it selects that named action, so the tokens eval 3
\* evaluate 3 and the token nb starts the notebook.  A one-character token
\* such as e never selects a named action.
C27_UnmarkedClassifiedUnlessSpelledLikeAction ==
    UnmarkedDispatched =>
        /\ IF SpelledLikeAction(Head(CommandLine))
           THEN NamedActionTaken
           ELSE ClassifiedFirst
        /\ CommandLine = <<Str_eval, Tok_3>> => action = Act("eval", Tok_3, <<>>)
        /\ CommandLine = <<<<"n", "b">>>> => action.name = "ipython"
        /\ CommandLine = <<<<"e">>, Tok_3>> =>
              action = Act("heuristic_eval", <<"e">>, <<Tok_3>>)

\* the tokens eval 3 ran to the end as the named action eval on the code 3
C27_Witness ==
    /\ CommandLine = <<Str_eval, Tok_3>>
    /\ action = Act("eval", Tok_3, <<>>)
    /\ main_pc = "finished"
    /\ ending = Completed

----------------------------------------------------------------------------
\* Failures of the scan leave the namespace alone

\* the binder ended with a help or source interrupt, or with one of the
\* ParseErrors of the scan of the tokens
ScanFailure ==
    /\ pc = "raised"
    /\ \/ outcome.exc \in {"_ParseInterruptedWantHelp", "_ParseInterruptedWantSource"}
       \/ /\ outcome.exc = "ParseError"
          /\ outcome.msg \in {"Invalid option name", "Unknown option name",
                              "Ambiguous", "Missing argument to"}

\* C28: when the binder ends with a help or source interrupt or with a
\* ParseError of the scan, no token has been evaluated or auto-imported: the
\* namespace is the one the binder was called with (the empty one) and no
\* value has been parsed.
C28_ScanFailureLeavesNamespace ==
    ScanFailure =>
        /\ ns_globals = {}
        /\ parsed_args = <<>>
        /\ parsed_kwargs = EmptyDict

\* the importable token os was scanned as a positional argument before the
\* token ? interrupted the binder, and os was not imported
C28_Witness ==
    /\ commandline_args = <<Tok_os, Tok_q>>
    /\ arg_mode = "auto"
    /\ got_pos_args = <<Tok_os>>
    /\ pc = "raised"
    /\ outcome = Raised("_ParseInterruptedWantHelp")
    /\ ns_globals = {}

----------------------------------------------------------------------------
(* LoggedList: the operations user code can perform on sys.argv while a     *)
(* SysArgvCtx is entered, lines 900-1027.  Positions are Python's, from 0.  *)

MaxList == 3

Str_b == <<"b">>

\* the elements the lists are made of
ListValues == {StrV(Str_a), StrV(Str_b)}

\* what user code can assign to a slice: a list, or an iterator over it,
\* which has no len()
SliceValues == {[iterator |-> it, items |-> v] :
                   it \in BOOLEAN, v \in BoundedSeqs(ListValues, 2)}

\* n accessed marks
RECURSIVE Marks(_)
Marks(n) == IF n = 0 THEN <<>> ELSE <<ACCESSED>> \o Marks(n - 1)

\* s * n
RECURSIVE Times(_, _)
Times(s, n) == IF n <= 0 THEN <<>> ELSE s \o Times(s, n - 1)

\* a slice bound clamped to the length of the list, as list slicing does
Clamp(s, i) == IF i > Len(s) THEN Len(s) ELSE i

\* s[lo:hi] = v on a list
SliceSet(s, lo, hi, v) ==
    SubSeq(s, 1, Clamp(s, lo)) \o v \o SubSeq(s, Clamp(s, hi) + 1, Len(s))

\* list.index(x): the first position of x, from 1
FirstIndex(s, x) == CHOOSE i \in 1..Len(s) : s[i] = x /\ \A j \in 1..(i - 1) : s[j] # x

\* the positions of s in the order of a stable sort by element
RECURSIVE ArgSort(_, _)
ArgSort(s, left) ==
    IF left = {} THEN <<>>
    ELSE LET m == CHOOSE i \in left : \A j \in left :
                      \/ i = j
                      \/ StrLess(s[i].s, s[j].s)
                      \/ s[i].s = s[j].s /\ i < j
         IN  <<m>> \o ArgSort(s, left \ {m})

\* what the list operations leave alone
list_frame == <<binder_state, idle_calls, surroundings, ns_globals, stdout, main_pc,
                main_args, self_arg_mode, action, orig_argv, calls, applications,
                ending, log>>

\* user code runs with a LoggedList as sys.argv
InUserCode == main_pc = "user_code" /\ sys_argv.logged

\* the lists the operations are followed on stay within the bound
WithinBound ==
    /\ Len(sys_argv'.items) <= MaxList
    /\ Len(sys_argv'.unaccessed) <= MaxList

\* lines 911-913
LoggedList_append ==
    /\ InUserCode /\ Len(sys_argv.items) < MaxList
    /\ \E x \in ListValues :
          sys_argv' = [sys_argv EXCEPT !.unaccessed = Append(@, ACCESSED),
                                       !.items = Append(@, x)]
    /\ result' = NoneV
    /\ WithinBound
    /\ UNCHANGED list_frame

\* lines 918-921, and __iadd__, lines 978-979
LoggedList_extend ==
    /\ InUserCode
    /\ \E new_items \in BoundedSeqs(ListValues, 2) :
          /\ Len(sys_argv.items) + Len(new_items) <= MaxList
          /\ sys_argv' = [sys_argv EXCEPT
                             !.unaccessed = @ \o Marks(Len(new_items)),
                             !.items = @ \o new_items]
    /\ result' = NoneV
    /\ WithinBound
    /\ UNCHANGED list_frame

\* lines 923-926, and __contains__, lines 953-958
LoggedList_index ==
    /\ InUserCode
    /\ \E x \in ListValues :
          /\ x \in Range(sys_argv.items)
          /\ sys_argv' = [sys_argv EXCEPT
                             !.unaccessed[FirstIndex(sys_argv.items, x)] = ACCESSED]
          /\ result' = IntV(FirstIndex(sys_argv.items, x) - 1)
    /\ WithinBound
    /\ UNCHANGED list_frame

\* lines 928-930
LoggedList_insert ==
    /\ InUserCode /\ Len(sys_argv.items) < MaxList
    /\ \E index \in 0..Len(sys_argv.items), x \in ListValues :
          sys_argv' = [sys_argv EXCEPT
                          !.unaccessed = InsertAt(@, Clamp(@, index), ACCESSED),
                          !.items = InsertAt(@, index, x)]
    /\ result' = NoneV
    /\ WithinBound
    /\ UNCHANGED list_frame

\* lines 932-934
LoggedList_pop ==
    /\ InUserCode
    /\ \E index \in 0..(Len(sys_argv.unaccessed) - 1) :
          /\ index < Len(sys_argv.items)
          /\ sys_argv' = [sys_argv EXCEPT !.unaccessed = RemoveAt(@, index + 1),
                                          !.items = RemoveAt(@, index + 1)]
          /\ result' = sys_argv.items[index + 1]
    /\ WithinBound
    /\ UNCHANGED list_frame

\* lines 936-938
LoggedList_remove ==
    /\ InUserCode
    /\ \E x \in ListValues :
          /\ x \in Range(sys_argv.items)
          /\ FirstIndex(sys_argv.items, x) <= Len(sys_argv.unaccessed)
          /\ sys_argv' = [sys_argv EXCEPT
                             !.unaccessed = RemoveAt(@, FirstIndex(sys_argv.items, x)),
                             !.items = RemoveAt(@, FirstIndex(sys_argv.items, x))]
    /\ result' = NoneV
    /\ WithinBound
    /\ UNCHANGED list_frame

\* lines 940-942
LoggedList_reverse ==
    /\ InUserCode
    /\ sys_argv' = [sys_argv EXCEPT
                       !.items = [i \in 1..Len(@) |-> @[Len(@) + 1 - i]],
                       !.unaccessed = [i \in 1..Len(@) |-> @[Len(@) + 1 - i]]]
    /\ result' = NoneV
    /\ WithinBound
    /\ UNCHANGED list_frame

\* the list s in the order of the positions indexes
Permuted(s, indexes) == [k \in 1..Len(indexes) |-> s[indexes[k]]]

\* lines 944-948: the items are replaced first, so they stay sorted when a
\* shorter list of marks then raises IndexError
LoggedList_sort ==
    /\ InUserCode
    /\ IF Len(sys_argv.unaccessed) >= Len(sys_argv.items)
       THEN /\ sys_argv' = [sys_argv EXCEPT
                  !.items = Permuted(@, ArgSort(sys_argv.items, DOMAIN sys_argv.items)),
                  !.unaccessed = Permuted(@, ArgSort(sys_argv.items, DOMAIN sys_argv.items))]
            /\ result' = NoneV
       ELSE /\ sys_argv' = [sys_argv EXCEPT
                  !.items = Permuted(@, ArgSort(sys_argv.items, DOMAIN sys_argv.items))]
            /\ result' = ErrV("IndexError")
    /\ WithinBound
    /\ UNCHANGED list_frame

\* lines 960-962, for a position and for a slice lo:hi
LoggedList_delitem ==
    /\ InUserCode
    /\ \E lo \in 0..Len(sys_argv.items), hi \in 0..Len(sys_argv.items) :
          /\ lo < hi
          /\ sys_argv' = [sys_argv EXCEPT
                             !.items = SliceSet(@, lo, hi, <<>>),
                             !.unaccessed = SliceSet(@, lo, hi, <<>>)]
    /\ result' = NoneV
    /\ WithinBound
    /\ UNCHANGED list_frame

\* lines 967-973, for a position and for a slice lo:hi
LoggedList_getitem ==
    /\ InUserCode
    /\ \E lo \in 0..Len(sys_argv.items), hi \in 0..Len(sys_argv.items) :
          /\ lo < hi
          /\ sys_argv' = [sys_argv EXCEPT
                             !.unaccessed = SliceSet(@, lo, hi, Marks(hi - lo))]
          /\ result' = IF hi = lo + 1 THEN sys_argv.items[hi] ELSE NoneV
    /\ WithinBound
    /\ UNCHANGED list_frame

\* lines 981-983
LoggedList_imul ==
    /\ InUserCode
    /\ \E n \in 0..2 :
          /\ Len(sys_argv.items) * n <= MaxList
          /\ Len(sys_argv.unaccessed) * n <= MaxList
          /\ sys_argv' = [sys_argv EXCEPT !.items = Times(@, n),
                                          !.unaccessed = Times(@, n)]
    /\ result' = NoneV
    /\ WithinBound
    /\ UNCHANGED list_frame

\* lines 985-989: an iteration that takes the first k elements
LoggedList_iter ==
    /\ InUserCode
    /\ \E k \in 1..Len(sys_argv.items) :
          /\ k <= Len(sys_argv.unaccessed)
          /\ sys_argv' = Accessed(sys_argv, 1..k)
    /\ result' = NoneV
    /\ WithinBound
    /\ UNCHANGED list_frame

\* lines 1001-1003 and 1021-1023: repr(argv), str(argv)
LoggedList_repr ==
    /\ InUserCode
    /\ sys_argv' = Accessed(sys_argv, 1..Len(sys_argv.unaccessed))
    /\ result' = NoneV
    /\ WithinBound
    /\ UNCHANGED list_frame

\* lines 1005-1009: a reversed iteration that takes the last k elements
LoggedList_reversed ==
    /\ InUserCode
    /\ \E k \in 1..Len(sys_argv.items) :
          /\ Len(sys_argv.unaccessed) >= Len(sys_argv.items)
          /\ sys_argv' = Accessed(sys_argv,
                                  (Len(sys_argv.items) - k + 1)..Len(sys_argv.items))
    /\ result' = NoneV
    /\ WithinBound
    /\ UNCHANGED list_frame

\* lines 1014-1019 for a position: argv[idx] = value
LoggedList_setitem ==
    /\ InUserCode
    /\ \E index \in 0..(Len(sys_argv.items) - 1), value \in ListValues :
          /\ index < Len(sys_argv.unaccessed)
          /\ sys_argv' = [sys_argv EXCEPT !.items[index + 1] = value,
                                          !.unaccessed[index + 1] = value]
    /\ result' = NoneV
    /\ WithinBound
    /\ UNCHANGED list_frame

\* lines 1014-1017 for a slice: argv[lo:hi] = value.  The items are assigned
\* first; len(value) then raises TypeError for an iterator.
LoggedList_setslice ==
    /\ InUserCode
    /\ \E lo \in 0..Len(sys_argv.items), hi \in 0..Len(sys_argv.items),
          value \in SliceValues :
          /\ lo <= hi
          /\ Len(sys_argv.items) - (hi - lo) + Len(value.items) <= MaxList
          /\ IF value.iterator
             THEN /\ sys_argv' = [sys_argv EXCEPT
                                     !.items = SliceSet(@, lo, hi, value.items)]
                  /\ result' = ErrV("TypeError")
             ELSE /\ sys_argv' = [sys_argv EXCEPT
                                     !.items = SliceSet(@, lo, hi, value.items),
                                     !.unaccessed =
                                         SliceSet(@, lo, hi, Marks(Len(value.items)))]
                  /\ result' = NoneV
    /\ WithinBound
    /\ UNCHANGED list_frame

\* lines 1031-1047: a SysArgvCtx was entered with the program name and up to
\* two arguments, and its body runs
InitList ==
    /\ main_pc = "user_code"
    /\ \E argv \in BoundedSeqs(ListValues, 2) :
          sys_argv = SysArgvCtxEnter(<<StrV(Str_py)>> \o argv)
    /\ orig_argv = PlainArgv(<<Str_py>>)
    /\ main_args = <<>>
    /\ self_arg_mode = ModeNone /\ self_output_mode = ModeNone
    /\ action = NoAction
    /\ files = {} /\ isatty = FALSE
    /\ calls = <<>> /\ applications = <<>>
    /\ ending = Running
    /\ log = <<>>
    /\ pc = "idle"
    /\ argspec = ArgSpec(<<>>, <<>>, FALSE, FALSE)
    /\ commandline_args = <<>>
    /\ arg_mode = "auto"
    /\ ns_globals = {}
    /\ stdin_data = <<>> /\ stdin_pos = 0 /\ stdin_reads = 0
    /\ args = <<>> /\ got_pos_args = <<>> /\ got_pos_src = <<>>
    /\ got_keyword_args = EmptyDict /\ idx = 0
    /\ parsed_args = <<>> /\ parsed_kwargs = EmptyDict
    /\ outcome = NoOutcome
    /\ pvs_arg = <<>>
    /\ mode_arg = <<>> /\ mode_alt = <<>> /\ mode_res = <<>>
    /\ result = NoneV /\ output_mode = <<>> /\ stdout = <<>>

NextList ==
    \/ LoggedList_append \/ LoggedList_extend \/ LoggedList_index
    \/ LoggedList_insert \/ LoggedList_pop \/ LoggedList_remove
    \/ LoggedList_reverse \/ LoggedList_sort \/ LoggedList_delitem
    \/ LoggedList_getitem \/ LoggedList_imul \/ LoggedList_iter
    \/ LoggedList_repr \/ LoggedList_reversed \/ LoggedList_setitem
    \/ LoggedList_setslice

SpecList == InitList /\ [][NextList]_vars

----------------------------------------------------------------------------
\* The two lists of a LoggedList

\* C29 as stated: after any sequence of operations on a LoggedList, the list
\* of items and the list of access marks have the same length, and the mark
\* at each position is the accessed sentinel or the item at that position.
C29_ItemsAndMarksAligned ==
    sys_argv.logged =>
        /\ Len(sys_argv.unaccessed) = Len(sys_argv.items)
        /\ \A i \in 1..Len(sys_argv.unaccessed) :
              \/ sys_argv.unaccessed[i] = ACCESSED
              \/ i <= Len(sys_argv.items) /\ sys_argv.unaccessed[i] = sys_argv.items[i]

\* how many times x occurs in the list s
CountIn(s, x) == Cardinality({i \in 1..Len(s) : s[i] = x})

\* C30 as stated: no operation on a LoggedList ever adds an entry to the
\* list of unaccessed elements, which only shrinks: an element added or
\* assigned after the construction is never reported as unused.
C30_UnaccessedOnlyShrinks ==
    [][sys_argv.logged =>
          \A x \in ListValues :
              CountIn(unaccessed(sys_argv'), x) <= CountIn(unaccessed(sys_argv), x)
      ]_vars

====
